---- MODULE Spec2Model ----
(***************************************************************************)
(* A model of the Gemini protocol library a-h/gemini: the server's         *)
(* per-connection task (server.go), the response Writer state machine      *)
(* (server.go) and the client's TOFU request path (client.go).             *)
(*                                                                         *)
(* Bytes are one-character strings; a Go string or []byte is a sequence of *)
(* them.  The empty Go string is the empty sequence <<>>.                  *)
(***************************************************************************)
EXTENDS Integers, Sequences, FiniteSets, TLC

VARIABLES
    \* ---- server: one accepted connection and its task ----
    insecure,     \* srv.Insecure
    pc,           \* position of the connection task
    stream,       \* the bytes the client sent that the server has not read
    certificate,  \* the Certificate handleTLS extracted: [ID, Error]
    dh,           \* the *DomainHandler found for the connection ("nil" if none)
    r,            \* the *Request parseRequest returned: <<>> is nil, else <<request>>
    w,            \* the Writer: [Code, WrittenHeader, WrittenBody]
    conn,         \* the calls of conn.Write so far: <<[kind, bytes], ...>>
    handler,      \* "notInvoked" | "running" | "returned" | "panicked"
    calls,        \* number of ResponseWriter calls the handler has made
    accepted,     \* payloads of the handler's Write calls that returned nil
    lastCall,     \* the last SetHeader / Write call and what it returned
    \* ---- client: one Client and the requests made with it ----
    allowed,      \* client.domainToAllowedCertificateHash: a set of <<host, hash>>
    clientInsecure, \* client.Insecure
    clock,        \* what time.Now() reads when the client makes a request
    adds,         \* the AddServerCertificate calls made so far: a set of <<host, hash>>
    nAdds,        \* number of AddServerCertificate calls so far
    lastReq,      \* the last RequestURL call and what it returned
    \* ---- virtual hosts: NewServer and the lookups of one TLS connection ----
    registered,   \* the domainToHandler map given to NewServer: name -> DomainHandler
    DomainToHandler, \* srv.DomainToHandler
    hello,        \* the server name of the ClientHello: <<>> is none yet, else <<name>>
    keyPair,      \* what GetCertificate returned: a KeyPair, <<"none", <<>>>> before
    \* ---- handlers: a Mux or a handler wrapper serving one request ----
    RouteHandlers, \* m.RouteHandlers: <<[Route, Handler], ...>>
    invoked,      \* the ServeGemini calls made on handlers: <<[Handler, r], ...>>
    wrapper,      \* the handler made by StripPrefixHandler or RequireCertificateHandler
    urls,         \* the url.URL objects requests point to, by address: <<[Path], ...>>
    opened,       \* the names FileSystem.Open has been called with, in order
    \* ---- the command line and the code predicates ----
    cmd,          \* the request subcommand: its flags, what it met, its exit status
    checked,      \* a code and what IsErrorCode returned for it
    \* ---- the accept loop and the connection tasks it starts ----
    ctxDone,      \* srv.Context has been cancelled
    loop,         \* position of serveTLS / serveInsecure: "check", "accept", "returned"
    tasks,        \* the connection tasks started, in the order of their accepts
    \* ---- goroutines that share a Client or the Logger ----
    goroutines,   \* the calls made on one Client at once: [g -> [call, at]]
    logMu,        \* the holders of the Logger's mutexes: [stdout, stderr], <<>> is free
    logCalls,     \* the Logger.Write calls made at once: [g -> [level, at]]
    \* ---- one call of readUntilCrLf ----
    reading,      \* the reader, the loop's variables and the results
    \* ---- the client certificates of a Client ----
    prefixToCertificate,  \* client.prefixToCertificate: [prefix -> key pair]
    picked        \* what the GetCertificate calls returned: [u, m, cert], in order

serverVars == <<insecure, pc, stream, certificate, dh, r, w, conn, handler,
                calls, accepted, lastCall>>

clientVars == <<allowed, clientInsecure, clock, adds, nAdds, lastReq>>

hostVars == <<registered, DomainToHandler, hello, keyPair>>

libVars == <<RouteHandlers, invoked, wrapper, urls, opened>>

cmdVars == <<cmd, checked>>

listenVars == <<ctxDone, loop, tasks>>

sharedVars == <<goroutines, logMu, logCalls>>

readerVars == <<reading>>

pickVars == <<prefixToCertificate, picked>>

procVars == <<cmdVars, listenVars, sharedVars, readerVars, pickVars>>

notServerVars == <<clientVars, hostVars, libVars, procVars>>
notClientVars == <<serverVars, hostVars, libVars, procVars>>

vars == <<serverVars, clientVars, hostVars, libVars, procVars>>

(***************************************************************************)
(* Bytes and strings                                                       *)
(***************************************************************************)
CR  == "\r"
LF  == "\n"
TAB == "\t"
SP  == " "

Min(a, b) == IF a < b THEN a ELSE b

\* n copies of "a"
Fill(n) == [i \in 1..n |-> "a"]

\* All sequences over S of length at most n.
SeqsUpTo(S, n) == UNION {[1..k -> S] : k \in 0..n}

DefaultMIMEType == <<"t", "e", "x", "t", "/", "g", "e", "m", "i", "n", "i", ";", " ", "c", "h", "a", "r", "s", "e", "t", "=", "u", "t", "f", "-", "8">>

CodeSuccess == <<"2", "0">>
CodeCGIError == <<"4", "2">>
CodeNotFound == <<"5", "1">>
CodeBadRequest == <<"5", "9">>
CodeClientCertificateNotValid == <<"6", "2">>

MetaTooLong == <<"r", "e", "q", "u", "e", "s", "t", " ", "t", "o", "o", " ", "l", "o", "n", "g", " ", "o", "r", " ", "m", "a", "l", "f", "o", "r", "m", "e", "d">>
MetaMalformed == <<"r", "e", "q", "u", "e", "s", "t", " ", "m", "a", "l", "f", "o", "r", "m", "e", "d">>
MetaErrorReading == <<"e", "r", "r", "o", "r", " ", "r", "e", "a", "d", "i", "n", "g", " ", "r", "e", "q", "u", "e", "s", "t", ":", " ">>
TimeoutText == <<"i", "/", "o", " ", "t", "i", "m", "e", "o", "u", "t">>
MetaInternalError == <<"i", "n", "t", "e", "r", "n", "a", "l", " ", "e", "r", "r", "o", "r">>
MetaEmptyResponse == <<"e", "m", "p", "t", "y", " ", "r", "e", "s", "p", "o", "n", "s", "e">>
CertNotYetValid == <<"c", "e", "r", "t", "i", "f", "i", "c", "a", "t", "e", " ", "n", "o", "t", " ", "y", "e", "t", " ", "v", "a", "l", "i", "d">>
CertExpired == <<"c", "e", "r", "t", "i", "f", "i", "c", "a", "t", "e", " ", "e", "x", "p", "i", "r", "e", "d">>

ErrHeaderAlreadyWritten == "gemini: header already written"
ErrCannotWriteBodyWithoutSuccessCode == "gemini: cannot write body without success code"

(***************************************************************************)
(* Bounds of the model                                                     *)
(***************************************************************************)
\* ResponseWriter calls a handler makes before it returns or panics.
MaxCalls == 2
\* ResponseWriter calls made on a Writer that records a handler (Record).
MaxWriterCalls == 4
\* Length of the varied part of a request that follows its filler.
MaxTail == 2
\* The clock and the certificates' validity times range over 1..MaxTime.
MaxTime == 3
Times == 1..MaxTime
\* AddServerCertificate calls made on one client.
MaxAdds == 1

\* Lengths of the run of "a" a request starts with: around the 1026 byte cap.
FillerLens == {0, 1023, 1024, 1025}
\* The bytes a request is made of.
ReqAlphabet == {"a", TAB, CR, LF}
\* The error of a Read once the stream's bytes are used up: the peer has
\* closed (io.EOF) or stalls until the read deadline (a timeout error).
ReadErrors == {"EOF", "timeout"}
\* What may end a request: nothing, a CRLF, one more byte and a CRLF.
Suffixes == {<<>>, <<CR, LF>>, <<"a", CR, LF>>}
\* The requests a client may send.
Requests == {Fill(n) \o t \o s :
                n \in FillerLens, t \in SeqsUpTo(ReqAlphabet, MaxTail), s \in Suffixes}

\* What a handler may pass to SetHeader and Write.
Codes == {<<>>, CodeSuccess, CodeNotFound, <<"2">>}
Metas == {<<>>, <<"m">>}
Payloads == {<<>>, <<"x">>, <<"y">>}

(***************************************************************************)
(* Framing                                                                 *)
(***************************************************************************)
\* The loop of readUntilCrLf reads one byte per iteration, at most maxLength
\* times.  It returns ok at the first LF whose preceding byte was CR, returns
\* the read error when the stream ends first, and falls out of the loop with
\* ok = false after maxLength bytes.  Every byte read before the return is
\* appended to the output, the CR of the terminator included.
\* readUntilCrLf without previousIsCr: any LF ends the line.
readUntilLf(src, readErr, maxLength) ==
    LET n    == Min(Len(src), maxLength)
        hits == {i \in 1..n : src[i] = LF}
    IN  IF hits # {}
        THEN LET k == CHOOSE i \in hits : \A j \in hits : i <= j
             IN  [output |-> SubSeq(src, 1, k - 1), ok |-> TRUE,
                  err |-> "nil", consumed |-> k]
        ELSE IF Len(src) >= maxLength
        THEN [output |-> SubSeq(src, 1, maxLength), ok |-> FALSE,
              err |-> "nil", consumed |-> maxLength]
        ELSE [output |-> src, ok |-> FALSE,
              err |-> readErr, consumed |-> Len(src)]

\* src is the stream's bytes, readErr the error of the Read that finds none.
readUntilCrLf(src, readErr, maxLength) ==
    LET n    == Min(Len(src), maxLength)
        hits == {i \in 2..n : src[i] = LF /\ src[i-1] = CR}
    IN  IF hits # {}
        THEN LET k == CHOOSE i \in hits : \A j \in hits : i <= j
             IN  [output |-> SubSeq(src, 1, k - 1), ok |-> TRUE,
                  err |-> "nil", consumed |-> k]
        ELSE IF Len(src) >= maxLength
        THEN [output |-> SubSeq(src, 1, maxLength), ok |-> FALSE,
              err |-> "nil", consumed |-> maxLength]
        ELSE [output |-> src, ok |-> FALSE,
              err |-> readErr, consumed |-> Len(src)]

\* isSuccessCode without the test of the first digit.
isSuccessCodeAnyDigit(code) == Len(code) = 2

isSuccessCode(code) == Len(code) = 2 /\ code[1] = "2"

MaxMetaLength == 1024

\* writeHeaderToWriter without the cut at 1024 bytes.
writeHeaderNoTruncation(code, meta) ==
    LET m1 == IF meta = <<>> /\ isSuccessCode(code) THEN DefaultMIMEType ELSE meta
    IN  code \o <<SP>> \o m1 \o <<CR, LF>>

\* writeHeaderToWriter without the space between the status and the meta.
writeHeaderNoSpace(code, meta) ==
    LET m1 == IF meta = <<>> /\ isSuccessCode(code) THEN DefaultMIMEType ELSE meta
        m2 == IF Len(m1) > MaxMetaLength THEN SubSeq(m1, 1, MaxMetaLength) ELSE m1
    IN  code \o m2 \o <<CR, LF>>

\* The bytes writeHeaderToWriter passes to w.Write: <STATUS><SPACE><META><CR><LF>
writeHeaderToWriter(code, meta) ==
    LET m1 == IF meta = <<>> /\ isSuccessCode(code) THEN DefaultMIMEType ELSE meta
        m2 == IF Len(m1) > MaxMetaLength THEN SubSeq(m1, 1, MaxMetaLength) ELSE m1
    IN  code \o <<SP>> \o m2 \o <<CR, LF>>

(***************************************************************************)
(* The response Writer                                                     *)
(***************************************************************************)
NewWriter == [Code |-> <<>>, WrittenHeader |-> 0, WrittenBody |-> 0]

\* Writer.SetHeader on writer gw whose underlying connection has seen cn.
SetHeader(gw, cn, code, meta) ==
    IF gw.Code # <<>>
    THEN [w |-> gw, conn |-> cn, err |-> ErrHeaderAlreadyWritten]
    ELSE LET hdr == writeHeaderToWriter(code, meta)
         IN  [w    |-> [gw EXCEPT !.Code = code, !.WrittenHeader = @ + Len(hdr)],
              conn |-> Append(cn, [kind |-> "header", bytes |-> hdr]),
              err  |-> "nil"]

\* Writer.Write without the implicit header on an empty Code.
WriteNoImplicitHeader(gw, cn, p) ==
    IF gw.Code # <<>> /\ ~isSuccessCode(gw.Code)
    THEN [w |-> gw, conn |-> cn, n |-> 0,
          err |-> ErrCannotWriteBodyWithoutSuccessCode]
    ELSE [w    |-> [gw EXCEPT !.Code = CodeSuccess, !.WrittenBody = @ + Len(p)],
          conn |-> Append(cn, [kind |-> "body", bytes |-> p]),
          n    |-> Len(p),
          err  |-> "nil"]

\* Writer.Write
Write(gw, cn, p) ==
    LET s == IF gw.Code = <<>>
             THEN LET h == SetHeader(gw, cn, CodeSuccess, DefaultMIMEType)
                  IN  [w |-> [h.w EXCEPT !.Code = CodeSuccess], conn |-> h.conn]
             ELSE [w |-> gw, conn |-> cn]
    IN  IF ~isSuccessCode(s.w.Code)
        THEN [w |-> s.w, conn |-> s.conn, n |-> 0,
              err |-> ErrCannotWriteBodyWithoutSuccessCode]
        ELSE [w    |-> [s.w EXCEPT !.WrittenBody = @ + Len(p)],
              conn |-> Append(s.conn, [kind |-> "body", bytes |-> p]),
              n    |-> Len(p),
              err  |-> "nil"]

(***************************************************************************)
(* The request parser                                                      *)
(***************************************************************************)
WhiteSpace == {TAB, LF, CR, SP}
ControlBytes == {TAB, LF, CR}

\* strings.TrimSpace
TrimSpace(s) ==
    IF \A i \in 1..Len(s) : s[i] \in WhiteSpace THEN <<>>
    ELSE LET first == CHOOSE i \in 1..Len(s) :
                         s[i] \notin WhiteSpace /\ \A j \in 1..(i-1) : s[j] \in WhiteSpace
             last  == CHOOSE i \in 1..Len(s) :
                         s[i] \notin WhiteSpace /\ \A j \in (i+1)..Len(s) : s[j] \in WhiteSpace
         IN  SubSeq(s, first, last)

\* url.Parse, for the bytes of ReqAlphabet: it rejects a string that holds an
\* ASCII control byte and otherwise yields a URL whose String() is the input.
urlParse(s) ==
    IF \E i \in 1..Len(s) : s[i] \in ControlBytes
    THEN [url |-> <<>>, err |-> "net/url: invalid control character in URL"]
    ELSE [url |-> s, err |-> "nil"]

MaxRequestLength == 1026

\* The text fmt.Sprintf("%v", err) gives for a read error.
ErrorText(e) == IF e = "timeout" THEN TimeoutText ELSE <<"E", "O", "F">>

\* Server.parseRequest reading from src: the request, ok, err, the bytes it
\* wrote to the connection (out) and the number of bytes it consumed.
parseRequest(src, readErr) ==
    LET rd == readUntilCrLf(src, readErr, MaxRequestLength)
        bad(meta, e) == [r |-> <<>>, ok |-> FALSE, err |-> e,
                         out |-> <<[kind  |-> "header",
                                    bytes |-> writeHeaderToWriter(CodeBadRequest, meta)]>>,
                         consumed |-> rd.consumed]
    IN  IF rd.err # "nil" /\ rd.err # "EOF"
        THEN bad(MetaErrorReading \o ErrorText(rd.err), rd.err)
        ELSE IF ~rd.ok
        THEN bad(MetaTooLong, rd.err)
        ELSE LET u == urlParse(TrimSpace(rd.output))
             IN  IF u.err # "nil"
                 THEN bad(MetaMalformed, u.err)
                 ELSE [r |-> <<[URL |-> u.url]>>, ok |-> TRUE, err |-> "nil",
                       out |-> <<>>, consumed |-> rd.consumed]

(***************************************************************************)
(* The connection task                                                     *)
(***************************************************************************)
NoCertificate == [ID |-> <<>>, Error |-> <<>>]

\* A nil *Request.
NilRequest == <<>>

\* The peer certificates a client may present: none, or one certificate.
PeerCertificates ==
    {<<>>} \cup {<<[Raw |-> "der1", NotBefore |-> nb, NotAfter |-> na]>> :
                    nb \in Times, na \in Times}

\* Certificate.ID: base64 of the SHA-256 of the certificate's DER bytes.
\* The encodings are kept as terms: both are injective.
CertificateID(raw) == <<"base64", <<"sha256", raw>>>>

\* The Certificate handleTLS builds from the peer certificates at time now.
extractCertificate(peerCerts, now) ==
    IF Len(peerCerts) > 0
    THEN LET cert == peerCerts[1]
             e1   == IF now < cert.NotBefore THEN CertNotYetValid ELSE <<>>
             e2   == IF now > cert.NotAfter THEN CertExpired ELSE e1
         IN  [ID |-> CertificateID(cert.Raw), Error |-> e2]
    ELSE NoCertificate

NoCall == [by |-> "none", op |-> "none", code |-> <<>>, meta |-> <<>>, p |-> <<>>,
           err |-> "nil", n |-> 0, connBefore |-> <<>>, codeBefore |-> <<>>,
           bodyBefore |-> 0]

\* The record of a SetHeader call made by `by` in the current state.
SetHeaderCall(by, code, meta, res) ==
    [by |-> by, op |-> "SetHeader", code |-> code, meta |-> meta, p |-> <<>>,
     err |-> res.err, n |-> 0, connBefore |-> conn, codeBefore |-> w.Code,
     bodyBefore |-> w.WrittenBody]

\* The record of a Write call made by the handler in the current state.
WriteCall(p, res) ==
    [by |-> "handler", op |-> "Write", code |-> <<>>, meta |-> <<>>, p |-> p,
     err |-> res.err, n |-> res.n, connBefore |-> conn, codeBefore |-> w.Code,
     bodyBefore |-> w.WrittenBody]

\* No request has been made: the zero value of the RequestURL results.
NoRequest == [u |-> [Host |-> <<>>, Path |-> <<>>], connected |-> FALSE, chain |-> <<>>,
              allowedHashesForDomain |-> {}, certificates |-> <<>>, ok |-> FALSE,
              err |-> "nil", sent |-> <<>>, resp |-> <<>>, response |-> <<>>,
              previous |-> <<>>]

\* No wrapping handler has been made.
NoWrapper == [kind |-> "none", prefix |-> <<>>, authoriser |-> [isNil |-> TRUE, allows |-> {}]]

\* The request subcommand has not run.
NoCmd == [noTLS |-> FALSE, insecure |-> FALSE, certFile |-> FALSE, headers |-> FALSE,
          keyPairLoaded |-> FALSE, authenticated |-> FALSE, scanErr |-> FALSE,
          exit |-> <<>>]

\* No code has been looked at.
NoCheck == [code |-> <<>>, IsErrorCode |-> <<>>]

CmdIdle ==
    /\ cmd = NoCmd
    /\ checked = NoCheck

\* ListenAndServe has not been called.
ListenIdle ==
    /\ ctxDone = FALSE
    /\ loop = "returned"
    /\ tasks = <<>>

\* No goroutine calls the Client or the Logger.
SharedIdle ==
    /\ goroutines = <<>>
    /\ logMu = [stdout |-> <<>>, stderr |-> <<>>]
    /\ logCalls = <<>>

\* readUntilCrLf has not been called.
NoRead == [src |-> <<>>, readErr |-> "EOF", withData |-> FALSE, maxLength |-> 0,
           i |-> 0, pos |-> 0, previousIsCr |-> FALSE, output |-> <<>>,
           ok |-> FALSE, err |-> "nil", at |-> "idle"]

ReaderIdle == reading = NoRead

\* The client has no client certificate and GetCertificate was not called.
PickIdle ==
    /\ prefixToCertificate = <<>>
    /\ picked = <<>>

\* No command runs and nothing runs beside the connection task.
ProcIdle ==
    /\ CmdIdle
    /\ ListenIdle
    /\ SharedIdle
    /\ ReaderIdle
    /\ PickIdle

\* No Mux has been made and no handler called.
LibIdle ==
    /\ RouteHandlers = <<>>
    /\ invoked = <<>>
    /\ wrapper = NoWrapper
    /\ urls = <<>>
    /\ opened = <<>>

\* No server has been made with NewServer.
HostsIdle ==
    /\ registered = <<>>
    /\ DomainToHandler = <<>>
    /\ hello = <<>>
    /\ keyPair = <<"none", <<>>>>

\* NewClient, before any call is made on it.
ClientIdle ==
    /\ allowed = {}
    /\ clientInsecure = FALSE
    /\ clock = 1
    /\ adds = {}
    /\ nAdds = 0
    /\ lastReq = NoRequest

Init ==
    /\ ClientIdle
    /\ HostsIdle
    /\ ProcIdle
    /\ LibIdle
    /\ insecure \in BOOLEAN
    /\ pc = IF insecure THEN "handle" ELSE "accepted"
    /\ stream \in Requests
    /\ certificate = NoCertificate
    \* serveInsecure takes the handler of the only domain, nil when there is none
    /\ dh \in IF insecure THEN {"nil", "handler"} ELSE {"nil"}
    /\ r = NilRequest
    /\ w = NewWriter
    /\ conn = <<>>
    /\ handler = "notInvoked"
    /\ calls = 0
    /\ accepted = <<>>
    /\ lastCall = NoCall

\* handleTLS: the handshake fails and the task ends.
HandshakeFail ==
    /\ pc = "accepted"
    /\ pc' = "closed"
    /\ UNCHANGED <<insecure, stream, certificate, dh, r, w, conn, handler, calls,
                   accepted, lastCall>>
    /\ UNCHANGED notServerVars

\* handleTLS: the handshake succeeds; the peer certificate is extracted and the
\* domain handler looked up (GetCertificate found it during the handshake).
Handshake ==
    /\ pc = "accepted"
    /\ \E peerCerts \in PeerCertificates, now \in Times :
          certificate' = extractCertificate(peerCerts, now)
    /\ dh' = "handler"
    /\ pc' = "handle"
    /\ UNCHANGED <<insecure, stream, r, w, conn, handler, calls, accepted, lastCall>>
    /\ UNCHANGED notServerVars

\* A reader that fills a buffer of two bytes: a byte after the last one the
\* caller asked for is gone from the stream as well.
ConsumeBuffered(src, n) == SubSeq(src, n + 2, Len(src))

\* The stream after n bytes of it have been read, one byte for each Read.
Consume(src, n) == SubSeq(src, n + 1, Len(src))

\* handle: parseRequest fails; it has written the 59 header and handle returns.
ParseFail ==
    /\ pc = "handle"
    /\ \E readErr \in ReadErrors :
          LET pr == parseRequest(stream, readErr)
          IN  /\ (pr.err # "nil" \/ ~pr.ok)
              /\ stream' = Consume(stream, pr.consumed)
              /\ conn' = conn \o pr.out
    /\ pc' = "closed"
    /\ UNCHANGED <<insecure, certificate, dh, r, w, handler, calls, accepted, lastCall>>
    /\ UNCHANGED notServerVars

\* handle: the request parsed and the certificate carries an error.
CertReject ==
    /\ pc = "handle"
    /\ LET pr == parseRequest(stream, "EOF")
           sh == SetHeader(NewWriter, conn, CodeClientCertificateNotValid, certificate.Error)
       IN  /\ pr.err = "nil" /\ pr.ok
           /\ certificate.Error # <<>>
           /\ stream' = Consume(stream, pr.consumed)
           /\ r' = <<[URL |-> pr.r[1].URL, Certificate |-> certificate]>>
           /\ w' = sh.w
           /\ conn' = sh.conn
           /\ lastCall' = SetHeaderCall("cert", CodeClientCertificateNotValid,
                                        certificate.Error, sh)
    /\ pc' = "closed"
    /\ UNCHANGED <<insecure, certificate, dh, handler, calls, accepted>>
    /\ UNCHANGED notServerVars

\* handle: the request parsed, there is no domain handler: dh.Handler panics on
\* the nil pointer and the deferred recover sets the 42 header.
NilHandlerPanic ==
    /\ pc = "handle"
    /\ LET pr == parseRequest(stream, "EOF")
           sh == SetHeader(NewWriter, conn, CodeCGIError, MetaInternalError)
       IN  /\ pr.err = "nil" /\ pr.ok
           /\ certificate.Error = <<>>
           /\ dh = "nil"
           /\ stream' = Consume(stream, pr.consumed)
           /\ r' = <<[URL |-> pr.r[1].URL, Certificate |-> certificate]>>
           /\ w' = sh.w
           /\ conn' = sh.conn
           /\ lastCall' = SetHeaderCall("recover", CodeCGIError, MetaInternalError, sh)
    /\ pc' = "closed"
    /\ UNCHANGED <<insecure, certificate, dh, handler, calls, accepted>>
    /\ UNCHANGED notServerVars

\* handle: the request parsed; the handler is invoked with a new Writer.
InvokeHandler ==
    /\ pc = "handle"
    /\ LET pr == parseRequest(stream, "EOF")
       IN  /\ pr.err = "nil" /\ pr.ok
           /\ certificate.Error = <<>>
           /\ dh # "nil"
           /\ stream' = Consume(stream, pr.consumed)
           /\ r' = <<[URL |-> pr.r[1].URL, Certificate |-> certificate]>>
    /\ w' = NewWriter
    /\ handler' = "running"
    /\ pc' = "serving"
    /\ UNCHANGED <<insecure, certificate, dh, conn, calls, accepted, lastCall>>
    /\ UNCHANGED notServerVars

\* The handler calls w.SetHeader(code, meta).
HandlerSetHeader(limit) ==
    /\ pc = "serving" /\ calls < limit
    /\ \E code \in Codes, meta \in Metas :
          LET sh == SetHeader(w, conn, code, meta)
          IN  /\ w' = sh.w
              /\ conn' = sh.conn
              /\ lastCall' = SetHeaderCall("handler", code, meta, sh)
    /\ calls' = calls + 1
    /\ UNCHANGED <<insecure, pc, stream, certificate, dh, r, handler, accepted>>
    /\ UNCHANGED notServerVars

\* The handler calls w.Write(p).
HandlerWrite(limit) ==
    /\ pc = "serving" /\ calls < limit
    /\ \E p \in Payloads :
          LET wr == Write(w, conn, p)
          IN  /\ w' = wr.w
              /\ conn' = wr.conn
              /\ lastCall' = WriteCall(p, wr)
              /\ accepted' = IF wr.err = "nil" THEN accepted \o p ELSE accepted
    /\ calls' = calls + 1
    /\ UNCHANGED <<insecure, pc, stream, certificate, dh, r, handler>>
    /\ UNCHANGED notServerVars

\* The handler returns: handle sets the 42 header if the Writer's Code is
\* still empty, logs the response and returns; the connection is closed.
HandlerReturn ==
    /\ pc = "serving"
    /\ handler' = "returned"
    /\ IF w.Code = <<>>
       THEN LET sh == SetHeader(w, conn, CodeCGIError, MetaEmptyResponse)
            IN  /\ w' = sh.w
                /\ conn' = sh.conn
                /\ lastCall' = SetHeaderCall("empty", CodeCGIError, MetaEmptyResponse, sh)
       ELSE UNCHANGED <<w, conn, lastCall>>
    /\ pc' = "closed"
    /\ UNCHANGED <<insecure, stream, certificate, dh, r, calls, accepted>>
    /\ UNCHANGED notServerVars

\* The handler panics: the deferred function recovers, logs and calls
\* w.SetHeader(42, "internal error"); the connection is closed.
HandlerPanic ==
    /\ pc = "serving"
    /\ handler' = "panicked"
    /\ LET sh == SetHeader(w, conn, CodeCGIError, MetaInternalError)
       IN  /\ w' = sh.w
           /\ conn' = sh.conn
           /\ lastCall' = SetHeaderCall("recover", CodeCGIError, MetaInternalError, sh)
    /\ pc' = "closed"
    /\ UNCHANGED <<insecure, stream, certificate, dh, r, calls, accepted>>
    /\ UNCHANGED notServerVars

ServerNext ==
    \/ HandshakeFail
    \/ Handshake
    \/ ParseFail
    \/ CertReject
    \/ NilHandlerPanic
    \/ InvokeHandler
    \/ HandlerSetHeader(MaxCalls)
    \/ HandlerWrite(MaxCalls)
    \/ HandlerReturn
    \/ HandlerPanic

SpecServer == Init /\ [][ServerNext]_vars

\* Record: a Writer over an in-memory buffer, handed to a handler.
InitRecord ==
    /\ ClientIdle
    /\ HostsIdle
    /\ ProcIdle
    /\ LibIdle
    /\ insecure = FALSE
    /\ pc = "serving"
    /\ stream = <<>>
    /\ certificate = NoCertificate
    /\ dh = "handler"
    /\ r = <<[URL |-> <<>>, Certificate |-> NoCertificate]>>
    /\ w = NewWriter
    /\ conn = <<>>
    /\ handler = "running"
    /\ calls = 0
    /\ accepted = <<>>
    /\ lastCall = NoCall

WriterNext ==
    \/ HandlerSetHeader(MaxWriterCalls)
    \/ HandlerWrite(MaxWriterCalls)

SpecWriter == InitRecord /\ [][WriterNext]_vars

(***************************************************************************)
(* The response parser                                                     *)
(***************************************************************************)
ErrInvalidStatus == "gemini: server status did not match the expected format"
ErrInvalidCode == "gemini: invalid code"
ErrInvalidMeta == "gemini: invalid meta"
ErrCrLfNotFoundWithinMaxLength == "gemini: invalid header - CRLF not found within maximum length"
ErrFailedToReadStatusLine == "gemini: failed to read status line"

MaxHeaderLength == 1029

\* strings.TrimRight(s, "\r\n")
TrimRightCrLf(s) ==
    IF \A i \in 1..Len(s) : s[i] \in {CR, LF} THEN <<>>
    ELSE SubSeq(s, 1, CHOOSE i \in 1..Len(s) :
                         s[i] \notin {CR, LF} /\ \A j \in (i+1)..Len(s) : s[j] \in {CR, LF})

\* strings.SplitN(s, " ", 2)
SplitN2(s) ==
    IF \E i \in 1..Len(s) : s[i] = SP
    THEN LET k == CHOOSE i \in 1..Len(s) : s[i] = SP /\ \A j \in 1..(i-1) : s[j] # SP
         IN  <<SubSeq(s, 1, k - 1), SubSeq(s, k + 1, Len(s))>>
    ELSE <<s>>

validStart == {"1", "2", "3", "4", "5", "6"}

isValidCode(code) == IF Len(code) = 0 THEN FALSE ELSE code[1] \in validStart

isValidMeta(m) == Len(m) <= MaxMetaLength

\* readHeader that asks for two parts, a status line without a space being
\* ErrInvalidStatus.
readHeaderTwoParts(src, readErr) ==
    LET rd    == readUntilCrLf(src, readErr, MaxHeaderLength)
        parts == SplitN2(TrimRightCrLf(rd.output))
        hdr(code, meta, e) == [h |-> [Code |-> code, Meta |-> meta], err |-> e,
                               consumed |-> rd.consumed]
    IN  IF rd.err # "nil" THEN hdr(<<>>, <<>>, ErrFailedToReadStatusLine)
        ELSE IF ~rd.ok THEN hdr(<<>>, <<>>, ErrCrLfNotFoundWithinMaxLength)
        ELSE IF Len(parts) # 2 THEN hdr(<<>>, <<>>, ErrInvalidStatus)
        ELSE IF ~isValidCode(parts[1]) THEN hdr(parts[1], <<>>, ErrInvalidCode)
        ELSE IF ~isValidMeta(parts[2]) THEN hdr(parts[1], parts[2], ErrInvalidMeta)
        ELSE hdr(parts[1], parts[2], "nil")

\* readHeader on the stream src: the Header, the error and the bytes consumed.
readHeader(src, readErr) ==
    LET rd    == readUntilCrLf(src, readErr, MaxHeaderLength)
        parts == SplitN2(TrimRightCrLf(rd.output))
        hdr(code, meta, e) == [h |-> [Code |-> code, Meta |-> meta], err |-> e,
                               consumed |-> rd.consumed]
    IN  IF rd.err # "nil" THEN hdr(<<>>, <<>>, ErrFailedToReadStatusLine)
        ELSE IF ~rd.ok THEN hdr(<<>>, <<>>, ErrCrLfNotFoundWithinMaxLength)
        ELSE IF Len(parts) # 1 /\ Len(parts) # 2 THEN hdr(<<>>, <<>>, ErrInvalidStatus)
        ELSE IF ~isValidCode(parts[1]) THEN hdr(parts[1], <<>>, ErrInvalidCode)
        ELSE IF Len(parts) > 1
        THEN IF ~isValidMeta(parts[2]) THEN hdr(parts[1], parts[2], ErrInvalidMeta)
             ELSE hdr(parts[1], parts[2], "nil")
        ELSE hdr(parts[1], <<>>, "nil")

\* NewResponse: the header read from the stream, the rest of it as the body.
NewResponse(src, readErr) ==
    LET rh == readHeader(src, readErr)
    IN  [resp |-> <<[Header |-> rh.h, Body |-> Consume(src, rh.consumed)]>>,
         err  |-> rh.err]

(***************************************************************************)
(* The client                                                              *)
(***************************************************************************)
UpperCase == <<"A", "B", "C", "D", "E", "F", "G", "H", "I", "J", "K", "L", "M",
               "N", "O", "P", "Q", "R", "S", "T", "U", "V", "W", "X", "Y", "Z">>
LowerCase == <<"a", "b", "c", "d", "e", "f", "g", "h", "i", "j", "k", "l", "m",
               "n", "o", "p", "q", "r", "s", "t", "u", "v", "w", "x", "y", "z">>

\* strings.ToLower
ToLower(s) ==
    [i \in 1..Len(s) |->
        IF \E k \in 1..26 : UpperCase[k] = s[i]
        THEN LowerCase[CHOOSE k \in 1..26 : UpperCase[k] = s[i]]
        ELSE s[i]]

Scheme == <<"g", "e", "m", "i", "n", "i", ":", "/", "/">>

\* The hosts of the URLs requested and of the AddServerCertificate calls.
Hosts == {<<"h">>, <<"H">>, <<"g">>}
URLs == {[Host |-> h, Path |-> <<"/">>] : h \in Hosts}

\* u.String()
URLString(u) == Scheme \o u.Host \o u.Path

\* The certificates a server may present: one valid at all times, one valid
\* at time 2 only.
ServerCertificates ==
    {[Raw |-> "der1", NotBefore |-> 1, NotAfter |-> MaxTime],
     [Raw |-> "der2", NotBefore |-> 2, NotAfter |-> 2]}
\* The longest peer certificate chain.
MaxChain == 2
\* The chains a server may present: no certificate twice.
Chains ==
    {c \in UNION {[1..k -> ServerCertificates] : k \in 1..MaxChain} :
        \A i, j \in 1..Len(c) : i # j => c[i] # c[j]}

\* base64.StdEncoding.EncodeToString(sha256.New().Sum(raw)): Sum appends the
\* digest of what was written to the hash (nothing) to raw.  The encodings
\* are kept as terms.
Fingerprint(raw) == <<"base64", <<raw, <<"sha256", <<>>>>>>>>

\* What the server answers: a header the server's Writer produced, and a body.
\* The last one has a code no client accepts.
ServerAnswers ==
    {[code |-> CodeSuccess, meta |-> <<"m">>, body |-> <<"b">>],
     [code |-> <<"9">>, meta |-> <<>>, body |-> <<>>]}
AnswerBytes(a) == writeHeaderToWriter(a.code, a.meta) \o a.body

ErrExpiredCertificate == "gemini: expired certificate"
ErrCertificateNotYetValid == "gemini: certificate not yet valid"
ErrConnecting == "gemini: error connecting"

\* client.domainToAllowedCertificateHash[host], as the set of its keys, where
\* table is the set of <<host, hash>> entries.
LookupAllowedHashesRaw(table, host) == {e[2] : e \in {x \in table : x[1] = host}}

\* allowedHashesForDomain of RequestURL: looked up under any host.
allowedHashesForAnyDomain(table, u) == {e[2] : e \in table}

\* allowedHashesForDomain of RequestURL for the URL u.
allowedHashesForDomain(table, u) == LookupAllowedHashesRaw(table, ToLower(u.Host))

\* The body of the loop with the validity window looked at before the allow-set.
checkCertificateValidityFirst(cert, hashes, t) ==
    IF t < cert.NotBefore THEN [ok |-> FALSE, err |-> ErrExpiredCertificate]
    ELSE IF t > cert.NotAfter THEN [ok |-> FALSE, err |-> ErrCertificateNotYetValid]
    ELSE [ok |-> Fingerprint(cert.Raw) \in hashes, err |-> "nil"]

\* The body of the loop of RequestURL for one peer certificate at time t: ok
\* when its hash is in the allow-set, else err when t is outside its window.
checkCertificate(cert, hashes, t) ==
    IF Fingerprint(cert.Raw) \in hashes THEN [ok |-> TRUE, err |-> "nil"]
    ELSE IF t < cert.NotBefore THEN [ok |-> FALSE, err |-> ErrExpiredCertificate]
    ELSE IF t > cert.NotAfter THEN [ok |-> FALSE, err |-> ErrCertificateNotYetValid]
    ELSE [ok |-> FALSE, err |-> "nil"]

\* The loop of RequestURL over the peer certificates from index i on, with the
\* certificates appended so far: it stops at a hash of the allow-set (break)
\* and at a certificate outside its validity window (return).
RECURSIVE checkPeerCertificates(_, _, _, _, _)
checkPeerCertificates(chain, i, hashes, t, certs) ==
    IF i > Len(chain) THEN [certificates |-> certs, ok |-> FALSE, err |-> "nil"]
    ELSE LET cs == Append(certs, Fingerprint(chain[i].Raw))
             c  == checkCertificate(chain[i], hashes, t)
         IN  IF c.ok \/ c.err # "nil"
             THEN [certificates |-> cs, ok |-> c.ok, err |-> c.err]
             ELSE checkPeerCertificates(chain, i + 1, hashes, t, cs)

\* What the caller keeps of a call that ended in the TOFU prompt (no error,
\* not ok): the URL, the chain the server presented and the hashes returned.
Prompt(q) ==
    IF q.connected /\ q.err = "nil" /\ ~q.ok
    THEN <<[u |-> q.u, chain |-> q.chain, certificates |-> q.certificates]>>
    ELSE <<>>

\* Client.RequestConn: the request line written, the response read.
RequestConn(u, answer) ==
    LET nr == NewResponse(answer, "EOF")
    IN  [sent |-> URLString(u) \o <<CR, LF>>, resp |-> nr.resp, err |-> nr.err]

\* Client.RequestURL for the client (table, insecureFlag) at time t: dial is
\* <<>> when the connection fails and <<chain>> when the server presents
\* chain; answer is what the server sends back.
RequestURL(table, insecureFlag, t, u, dial, answer, previous) ==
    LET base == [u |-> u, connected |-> dial # <<>>,
                 chain |-> IF dial = <<>> THEN <<>> ELSE dial[1],
                 allowedHashesForDomain |-> {}, certificates |-> <<>>, ok |-> FALSE,
                 err |-> "nil", sent |-> <<>>, resp |-> <<>>, response |-> <<>>,
                 previous |-> previous]
    IN  IF dial = <<>> THEN [base EXCEPT !.err = ErrConnecting]
        ELSE LET hashes == allowedHashesForDomain(table, u)
                 chk    == checkPeerCertificates(dial[1], 1, hashes, t, <<>>)
                 seen   == [base EXCEPT !.allowedHashesForDomain = hashes,
                                        !.certificates = chk.certificates,
                                        !.ok = chk.ok]
             IN  IF chk.err # "nil" THEN [seen EXCEPT !.err = chk.err]
                 ELSE IF ~chk.ok /\ ~insecureFlag THEN seen
                 ELSE LET rc == RequestConn(u, AnswerBytes(answer))
                      IN  [seen EXCEPT !.sent = rc.sent, !.resp = rc.resp,
                                       !.err = rc.err, !.response = <<answer>>]

ServerIdle ==
    /\ insecure = FALSE
    /\ pc = "closed"
    /\ stream = <<>>
    /\ certificate = NoCertificate
    /\ dh = "nil"
    /\ r = NilRequest
    /\ w = NewWriter
    /\ conn = <<>>
    /\ handler = "notInvoked"
    /\ calls = 0
    /\ accepted = <<>>
    /\ lastCall = NoCall

\* NewClient; the caller may set Insecure before the first request.
InitClient ==
    /\ ServerIdle
    /\ HostsIdle
    /\ ProcIdle
    /\ LibIdle
    /\ allowed = {}
    /\ clientInsecure \in BOOLEAN
    /\ clock = 1
    /\ adds = {}
    /\ nAdds = 0
    /\ lastReq = NoRequest

\* client.AddServerCertificate(host, certificateHash)
AddServerCertificate ==
    /\ nAdds < MaxAdds
    /\ \E host \in Hosts, cert \in ServerCertificates :
          LET certificateHash == Fingerprint(cert.Raw)
          IN  /\ allowed' = allowed \cup {<<ToLower(host), certificateHash>>}
              /\ adds' = adds \cup {<<host, certificateHash>>}
    /\ nAdds' = nAdds + 1
    /\ UNCHANGED <<clientInsecure, clock, lastReq>>
    /\ UNCHANGED notClientVars

\* client.RequestURL(ctx, u) against a server that cannot be reached.
RequestURLDialFails ==
    /\ \E u \in URLs :
          lastReq' = RequestURL(allowed, clientInsecure, clock, u, <<>>,
                                CHOOSE a \in ServerAnswers : TRUE, Prompt(lastReq))
    /\ UNCHANGED <<allowed, clientInsecure, clock, adds, nAdds>>
    /\ UNCHANGED notClientVars

\* client.RequestURL(ctx, u) against a server that presents a chain and answers.
RequestURLConnected ==
    /\ \E u \in URLs, chain \in Chains, answer \in ServerAnswers :
          lastReq' = RequestURL(allowed, clientInsecure, clock, u, <<chain>>, answer,
                                Prompt(lastReq))
    /\ UNCHANGED <<allowed, clientInsecure, clock, adds, nAdds>>
    /\ UNCHANGED notClientVars

\* Time passes.
Tick ==
    /\ clock < MaxTime
    /\ clock' = clock + 1
    /\ UNCHANGED <<allowed, clientInsecure, adds, nAdds, lastReq>>
    /\ UNCHANGED notClientVars

ClientNext ==
    \/ AddServerCertificate
    \/ RequestURLDialFails
    \/ RequestURLConnected
    \/ Tick

SpecClient == InitClient /\ [][ClientNext]_vars

(***************************************************************************)
(* Properties                                                              *)
(***************************************************************************)
\* Number of header lines written to the connection cn.
HeaderCount(cn) == Cardinality({i \in DOMAIN cn : cn[i].kind = "header"})

\* The bytes of the connection cn, in the order written.
RECURSIVE Flatten(_)
Flatten(cn) == IF cn = <<>> THEN <<>> ELSE cn[1].bytes \o Flatten(Tail(cn))

HeaderChunk(bytes) == [kind |-> "header", bytes |-> bytes]
BodyChunk(bytes) == [kind |-> "body", bytes |-> bytes]

\* C1: once a header has been written on a Writer, every later SetHeader call
\* returns ErrHeaderAlreadyWritten and emits no bytes, so at most one header
\* line reaches the connection.
C1_SetHeaderOnlyOnce ==
    /\ HeaderCount(conn) <= 1
    /\ (lastCall.op = "SetHeader" /\ HeaderCount(lastCall.connBefore) > 0)
          => (lastCall.err = ErrHeaderAlreadyWritten /\ conn = lastCall.connBefore)

\* C2: the bytes that reach the connection are one header line followed by
\* the payloads of the accepted Write calls in call order; no body byte comes
\* before the header.
C2_HeaderThenBodies ==
    conn # <<>> =>
        /\ conn[1].kind = "header"
        /\ HeaderCount(conn) = 1
        /\ Flatten(conn) = conn[1].bytes \o accepted

\* C3: when the first operation on a fresh Writer is Write(b), the Writer
\* emits exactly the header "20 text/gemini; charset=utf-8" CR LF, records
\* code 20, and only then forwards b.
C3_ImplicitDefaultHeader ==
    (calls = 1 /\ lastCall.op = "Write" /\ lastCall.connBefore = <<>>) =>
        /\ conn = <<HeaderChunk(<<"2", "0", " ", "t", "e", "x", "t", "/", "g", "e", "m",
                                  "i", "n", "i", ";", " ", "c", "h", "a", "r", "s", "e",
                                  "t", "=", "u", "t", "f", "-", "8", "\r", "\n">>),
                    BodyChunk(lastCall.p)>>
        /\ w.Code = <<"2", "0">>
        /\ lastCall.err = "nil"

C3_Witness ==
    /\ calls = 1 /\ lastCall.op = "Write" /\ lastCall.p = <<"x">>
    /\ Len(conn) = 2

\* C4: Write after SetHeader with a code whose first digit is not "2" returns
\* ErrCannotWriteBodyWithoutSuccessCode, forwards no bytes to the connection
\* and leaves WrittenBody unchanged.
C4_NoBodyWithoutSuccess ==
    (/\ lastCall.op = "Write"
     /\ lastCall.codeBefore # <<>>
     /\ lastCall.codeBefore[1] # "2") =>
        /\ lastCall.err = ErrCannotWriteBodyWithoutSuccessCode
        /\ conn = lastCall.connBefore
        /\ w.WrittenBody = lastCall.bodyBefore

C4_Witness ==
    /\ lastCall.op = "Write" /\ lastCall.p = <<"x">>
    /\ lastCall.codeBefore = <<"5", "1">>
    /\ HeaderCount(conn) = 1

\* A CRLF within the first 1026 bytes of s.
HasCrLfWithinCap(s) ==
    \E i \in 2..Min(Len(s), 1026) : s[i-1] = CR /\ s[i] = LF

\* The bytes of s before its first CRLF.
RequestLine(s) ==
    SubSeq(s, 1, (CHOOSE i \in 2..Len(s) :
                     /\ s[i-1] = CR /\ s[i] = LF
                     /\ \A j \in 2..(i-1) : ~(s[j-1] = CR /\ s[j] = LF)) - 2)

\* The request s is over-long or ends before a CRLF, or its trimmed line is
\* no URL.
BadRequest(s) ==
    \/ ~HasCrLfWithinCap(s)
    \/ urlParse(TrimSpace(RequestLine(s))).err # "nil"

\* A header line with code 59 and a non-empty meta.
IsBadRequestHeader(chunk) ==
    /\ chunk.kind = "header"
    /\ Len(chunk.bytes) > 5
    /\ SubSeq(chunk.bytes, 1, 3) = <<"5", "9", " ">>
    /\ SubSeq(chunk.bytes, Len(chunk.bytes) - 1, Len(chunk.bytes)) = <<CR, LF>>

\* C5: for every request that is over-long, that ends before a CRLF, or whose
\* trimmed line fails URL parsing, the server writes a single header with code
\* 59 and a non-empty meta, never invokes the handler, and writes nothing else.
C5_BadRequestGets59 ==
    [][/\ (pc = "handle" /\ BadRequest(stream)) =>
              /\ pc' = "closed"
              /\ handler' = "notInvoked"
              /\ Len(conn') = 1
              /\ IsBadRequestHeader(conn'[1])
       /\ pc = "closed" => (conn' = conn /\ handler' = handler)]_vars

C5_Witness ==
    /\ pc = "closed" /\ r = NilRequest /\ handler = "notInvoked"
    /\ conn = <<HeaderChunk(<<"5", "9", " ">> \o MetaMalformed \o <<CR, LF>>)>>

\* C6: if the handler panics, the connection receives "42 internal error" if
\* and only if no header had been written before the panic; when a header
\* had been written, no further header bytes are emitted.
C6_PanicGets42IffNoHeader ==
    handler = "panicked" =>
        IF HeaderCount(lastCall.connBefore) = 0
        THEN conn = Append(lastCall.connBefore,
                           HeaderChunk(<<"4", "2", " ">> \o MetaInternalError \o <<CR, LF>>))
        ELSE conn = lastCall.connBefore

\* C7 as stated: when the client certificate carries an error, the server
\* replies with header 62 and the error as meta, and never invokes the handler.
C7_CertErrorGets62 ==
    (pc = "closed" /\ certificate.Error # <<>>) =>
        /\ conn = <<HeaderChunk(<<"6", "2", " ">> \o certificate.Error \o <<CR, LF>>)>>
        /\ handler = "notInvoked"

\* C7 amended: when the client certificate carries an error and the request
\* line has been parsed, the server replies with header 62 and the error as
\* meta; with a certificate error the handler is never invoked.
C7_CertErrorGets62AfterParse ==
    /\ (pc = "closed" /\ certificate.Error # <<>> /\ r # NilRequest) =>
          conn = <<HeaderChunk(<<"6", "2", " ">> \o certificate.Error \o <<CR, LF>>)>>
    /\ certificate.Error # <<>> => handler = "notInvoked"

C7_Witness ==
    /\ pc = "closed" /\ certificate.Error = CertExpired /\ r # NilRequest
    /\ Len(conn) = 1 /\ handler = "notInvoked"

\* What the handler had written when it returned.
WrittenByHandler == IF lastCall.by = "empty" THEN lastCall.connBefore ELSE conn

\* C8: if the handler returns without having set a header or written any
\* bytes, the server emits header 42 with meta "empty response"; if the
\* handler did write a header or a body, the server adds nothing.
C8_EmptyResponseGets42 ==
    handler = "returned" =>
        IF WrittenByHandler = <<>>
        THEN conn = <<HeaderChunk(<<"4", "2", " ">> \o MetaEmptyResponse \o <<CR, LF>>)>>
        ELSE conn = WrittenByHandler

(***************************************************************************)
(* Properties of the client                                                *)
(***************************************************************************)
\* A step that is a RequestURL call: neither an AddServerCertificate call nor
\* the passing of time.
IsRequestStep == nAdds' = nAdds /\ clock' = clock

\* The hashes registered by AddServerCertificate calls for host, the host
\* compared without regard to case.
RegisteredFor(host) == {a[2] : a \in {x \in adds : ToLower(x[1]) = ToLower(host)}}

\* A peer certificate of chain has a registered fingerprint for host.
AllowListed(chain, host) ==
    \E i \in 1..Len(chain) : Fingerprint(chain[i].Raw) \in RegisteredFor(host)

\* C9: RequestURL writes the request line only if the fingerprint of a peer
\* certificate is in the allow-set registered for the URL's host (compared
\* case-insensitively) or Insecure is set; otherwise it returns ok = false
\* and no byte of the request is sent.
C9_RequestOnlyIfTrusted ==
    [][IsRequestStep =>
         /\ lastReq'.sent # <<>> =>
               \/ clientInsecure
               \/ AllowListed(lastReq'.chain, lastReq'.u.Host)
         /\ (/\ lastReq'.connected
             /\ ~clientInsecure
             /\ ~AllowListed(lastReq'.chain, lastReq'.u.Host)) =>
               /\ lastReq'.ok = FALSE
               /\ lastReq'.sent = <<>>
               /\ lastReq'.resp = <<>>]_vars

\* C9 witness: a request for host "H" was written to a server trusted only
\* through a registration made under another spelling of the host.
C9_Witness ==
    /\ ~clientInsecure
    /\ lastReq.u.Host = <<"H">>
    /\ lastReq.sent = URLString(lastReq.u) \o <<CR, LF>>
    /\ lastReq.ok
    /\ \A a \in adds : a[1] = <<"h">>

\* Every certificate of chain is within its validity window at time t.
AllValid(chain, t) ==
    \A i \in 1..Len(chain) : chain[i].NotBefore <= t /\ t <= chain[i].NotAfter

\* The response the server's answer amounts to.
Delivered(answer) ==
    <<[Header |-> [Code |-> answer.code, Meta |-> answer.meta], Body |-> answer.body]>>

\* An answer whose status code is one of the protocol.
WellFormed(answer) == answer.code \in {CodeSuccess, CodeNotFound}

\* A step that is the retry of the TOFU flow: the last call ended in the TOFU
\* prompt, the leaf hash it returned has since been registered for its host,
\* and this call goes to the same URL and reaches a server presenting the
\* same chain.
IsRetryAfterAdd ==
    /\ IsRequestStep
    /\ Prompt(lastReq) # <<>>
    /\ <<lastReq.u.Host, lastReq.certificates[1]>> \in adds
    /\ lastReq'.connected
    /\ lastReq'.u = lastReq.u
    /\ lastReq'.chain = lastReq.chain

\* The call q returned no error, but for that of a malformed response it read.
NoErrorOfItsOwn(q) ==
    \/ q.err = "nil"
    \/ q.sent # <<>> /\ ~WellFormed(q.response[1])

\* The first half of the TOFU flow, for a call q that reached a server none of
\* whose certificates is allow-listed for the host: not ok, no error, and the
\* hash of the server's certificate first among those returned.
TofuFirstUntrusted(q) ==
    /\ q.ok = FALSE
    /\ NoErrorOfItsOwn(q)
    /\ q.certificates # <<>>
    /\ q.certificates[1] = Fingerprint(q.chain[1].Raw)

\* The second half of the TOFU flow: the retry is trusted, the request is
\* written and the response the server sends is the one returned.
TofuRetryTrusted ==
    IsRetryAfterAdd =>
        /\ lastReq'.ok = TRUE
        /\ lastReq'.sent = URLString(lastReq'.u) \o <<CR, LF>>
        /\ NoErrorOfItsOwn(lastReq')
        /\ WellFormed(lastReq'.response[1]) =>
              lastReq'.resp = Delivered(lastReq'.response[1])

\* C10 as stated: a RequestURL that finds no allow-listed fingerprint returns
\* ok = false with no error and surfaces the server's fingerprint; after
\* AddServerCertificate(h, fp) with it, the next RequestURL to h against the
\* same certificate returns ok = true and delivers the response.
C10_TofuFlow ==
    [][/\ (IsRequestStep /\ lastReq'.connected
              /\ ~AllowListed(lastReq'.chain, lastReq'.u.Host)) =>
            TofuFirstUntrusted(lastReq')
       /\ TofuRetryTrusted]_vars

\* C10 amended: the first half holds when every certificate the server
\* presents is within its validity window at the time of the call; the second
\* half holds as stated, fp being the hash of the leaf.
C10_TofuFlowWhenValid ==
    [][/\ (IsRequestStep /\ lastReq'.connected
              /\ ~AllowListed(lastReq'.chain, lastReq'.u.Host)
              /\ AllValid(lastReq'.chain, clock)) =>
            TofuFirstUntrusted(lastReq')
       /\ TofuRetryTrusted]_vars

\* C10 witness: the retry after the registration was trusted and its
\* response delivered, at a time when the leaf is outside its window.
C10_Witness ==
    /\ ~clientInsecure
    /\ lastReq.previous # <<>>
    /\ lastReq.u = lastReq.previous[1].u
    /\ lastReq.chain = lastReq.previous[1].chain
    /\ <<lastReq.u.Host, lastReq.previous[1].certificates[1]>> \in adds
    /\ lastReq.ok
    /\ lastReq.err = "nil"
    /\ lastReq.resp = Delivered(lastReq.response[1])
    /\ ~AllValid(lastReq.chain, clock)

(***************************************************************************)
(* The header round trip: Record with a handler that sets one header       *)
(***************************************************************************)
CodeInput == <<"1", "0">>
CodeRedirect == <<"3", "0">>
CodeClientCertificateRequired == <<"6", "0">>
CodeClientCertificateNotAuthorised == <<"6", "1">>

\* The status codes a handler sets: one of each class.
HeaderCodes == {CodeInput, CodeSuccess, CodeRedirect, CodeCGIError, CodeNotFound,
                CodeClientCertificateRequired}
\* Lengths of the run of "a" a meta starts with: around the 1024 byte cap.
MetaFillerLens == {0, 1022, 1023, 1024}
\* The bytes that follow the run.
MetaAlphabet == {"b", SP, CR, LF}
\* The metas a handler sets: of 0 to 1024 + MaxTail bytes.
HeaderMetas == {Fill(n) \o t : n \in MetaFillerLens, t \in SeqsUpTo(MetaAlphabet, MaxTail)}

\* The handler Record runs calls w.SetHeader(code, meta) on the fresh Writer.
RecordSetHeader ==
    /\ pc = "serving" /\ calls = 0
    /\ \E code \in HeaderCodes, meta \in HeaderMetas :
          LET sh == SetHeader(w, conn, code, meta)
          IN  /\ w' = sh.w
              /\ conn' = sh.conn
              /\ lastCall' = SetHeaderCall("handler", code, meta, sh)
    /\ calls' = 1
    /\ UNCHANGED <<insecure, pc, stream, certificate, dh, r, handler, accepted>>
    /\ UNCHANGED notServerVars

\* The handler returns and Record parses the buffer with NewResponse.
RecordReturn ==
    /\ pc = "serving" /\ calls = 1
    /\ pc' = "recorded"
    /\ handler' = "returned"
    /\ LET nr == NewResponse(Flatten(conn), "EOF")
       IN  lastReq' = [NoRequest EXCEPT !.resp = nr.resp, !.err = nr.err]
    /\ UNCHANGED <<insecure, stream, certificate, dh, r, w, conn, calls, accepted, lastCall>>
    /\ UNCHANGED <<allowed, clientInsecure, clock, adds, nAdds>>
    /\ UNCHANGED <<hostVars, libVars, procVars>>

HeaderNext ==
    \/ RecordSetHeader
    \/ RecordReturn

SpecHeader == InitRecord /\ [][HeaderNext]_vars

\* The meta a reader of the header is to get for a meta the handler set.
ExpectedMeta(code, meta) ==
    IF meta = <<>> /\ code[1] = "2" THEN DefaultMIMEType ELSE meta

\* C11: for every valid code and every meta of at most 1024 bytes, parsing
\* the header line written for (code, meta) yields the same code and meta, an
\* empty meta with a success code yielding the default MIME type.
C11_HeaderRoundTrip ==
    (pc = "recorded" /\ Len(lastCall.meta) <= 1024) =>
        /\ lastReq.err = "nil"
        /\ lastReq.resp[1].Header =
              [Code |-> lastCall.code, Meta |-> ExpectedMeta(lastCall.code, lastCall.meta)]

\* The first n bytes of s.
Prefix(s, n) == SubSeq(s, 1, Min(Len(s), n))

\* The header line whose meta is m.
HeaderLine(code, m) == code \o <<SP>> \o m \o <<CR, LF>>

\* C12 as stated: a meta longer than 1024 bytes is emitted as its first 1024
\* bytes between the space and the CRLF; a meta of at most 1024 bytes is
\* emitted unchanged.
C12_MetaTruncated ==
    (calls = 1 /\ lastCall.op = "SetHeader" /\ lastCall.connBefore = <<>>) =>
        Flatten(conn) = HeaderLine(lastCall.code, Prefix(lastCall.meta, 1024))

\* C12 amended: the same, but for the empty meta of a success code, in whose
\* place the default MIME type is emitted.
C12_MetaTruncatedButDefault ==
    (calls = 1 /\ lastCall.op = "SetHeader" /\ lastCall.connBefore = <<>>) =>
        Flatten(conn) =
            HeaderLine(lastCall.code,
                       Prefix(ExpectedMeta(lastCall.code, lastCall.meta), 1024))

\* C12 witness: a meta of 1026 bytes was set and 1024 of them were emitted.
C12_Witness ==
    /\ calls = 1
    /\ lastCall.op = "SetHeader"
    /\ Len(lastCall.meta) = 1026
    /\ Len(Flatten(conn)) = Len(lastCall.code) + 1 + 1024 + 2

(***************************************************************************)
(* Virtual hosts                                                           *)
(***************************************************************************)
\* The names domains are registered under: three spellings of one domain and
\* another domain.
DomainNames == {<<"a", "b">>, <<"A", "b">>, <<"a", "B">>, <<"g">>}
\* The server names a ClientHello carries.
ServerNames == {<<"a", "b">>, <<"A", "B">>, <<"g">>, <<"G">>, <<"x">>}
\* The most domains one server is made with.
MaxDomains == 3

\* The DomainHandler registered under name k: its own key pair and handler.
DomainHandlerOf(k) == [KeyPair |-> <<"keyPair", k>>, Handler |-> <<"handler", k>>]

\* The nil *tls.Certificate GetCertificate returns with its error.
NoKeyPair == <<"notFound", <<>>>>
\* The nil *DomainHandler handleTLS hands to srv.handle when the lookup fails.
NilDomainHandler == [KeyPair |-> <<"nil", <<>>>>, Handler |-> <<"nil", <<>>>>]

\* The maps NewServer is given.
RegisteredMaps ==
    {[k \in K |-> DomainHandlerOf(k)] :
        K \in {S \in SUBSET DomainNames : S # {} /\ Cardinality(S) <= MaxDomains}}

\* m[k] = v on the map m.
MapPut(m, k, v) == [x \in DOMAIN m \cup {k} |-> IF x = k THEN v ELSE m[x]]

\* The maps the range loop of NewServer may leave, todo being the keys of the
\* given map it has yet to visit: the order of a range over a map is not
\* fixed, and a key added during the loop is its own lower-case form.
RECURSIVE NewServerRange(_, _)
NewServerRange(m, todo) ==
    IF todo = {} THEN {m}
    ELSE UNION {NewServerRange(MapPut(m, ToLower(k), m[k]), todo \ {k}) : k \in todo}

\* srv.DomainToHandler[serverName], without the lower-casing of serverName.
lookupDomainHandlerExact(m, serverName) ==
    IF serverName \in DOMAIN m THEN <<m[serverName]>> ELSE <<>>

\* srv.DomainToHandler[strings.ToLower(serverName)]: <<>> when not ok.
lookupDomainHandler(m, serverName) ==
    IF ToLower(serverName) \in DOMAIN m THEN <<m[ToLower(serverName)]>> ELSE <<>>

InitHosts ==
    /\ ClientIdle
    /\ HostsIdle
    /\ ProcIdle
    /\ LibIdle
    /\ insecure = FALSE
    /\ pc = "NewServer"
    /\ stream = <<>>
    /\ certificate = NoCertificate
    /\ dh = "nil"
    /\ r = NilRequest
    /\ w = NewWriter
    /\ conn = <<>>
    /\ handler = "notInvoked"
    /\ calls = 0
    /\ accepted = <<>>
    /\ lastCall = NoCall

\* NewServer(ctx, addr, domainToHandler)
NewServer ==
    /\ pc = "NewServer"
    /\ \E given \in RegisteredMaps :
          /\ registered' = given
          /\ \E m \in NewServerRange(given, DOMAIN given) : DomainToHandler' = m
    /\ pc' = "listening"
    /\ UNCHANGED <<hello, keyPair>>
    /\ UNCHANGED <<insecure, stream, certificate, dh, r, w, conn, handler, calls,
                   accepted, lastCall>>
    /\ UNCHANGED <<clientVars, libVars, procVars>>

\* The GetCertificate callback of serveTLS finds the domain of the ClientHello.
GetCertificate ==
    /\ pc = "listening"
    /\ \E serverName \in ServerNames :
          LET found == lookupDomainHandler(DomainToHandler, serverName)
          IN  /\ found # <<>>
              /\ hello' = <<serverName>>
              /\ keyPair' = found[1].KeyPair
    /\ pc' = "handshake"
    /\ UNCHANGED <<registered, DomainToHandler>>
    /\ UNCHANGED <<insecure, stream, certificate, dh, r, w, conn, handler, calls,
                   accepted, lastCall>>
    /\ UNCHANGED <<clientVars, libVars, procVars>>

\* The GetCertificate callback finds no domain: the handshake fails and
\* handleTLS returns.
GetCertificateNotFound ==
    /\ pc = "listening"
    /\ \E serverName \in ServerNames :
          /\ lookupDomainHandler(DomainToHandler, serverName) = <<>>
          /\ hello' = <<serverName>>
    /\ keyPair' = NoKeyPair
    /\ pc' = "closed"
    /\ UNCHANGED <<registered, DomainToHandler>>
    /\ UNCHANGED <<insecure, stream, certificate, dh, r, w, conn, handler, calls,
                   accepted, lastCall>>
    /\ UNCHANGED <<clientVars, libVars, procVars>>

\* handleTLS after the handshake: the domain handler of the connection's
\* server name, handed to srv.handle.
HandleTLSLookup ==
    /\ pc = "handshake"
    /\ LET found == lookupDomainHandler(DomainToHandler, hello[1])
       IN  dh' = IF found = <<>> THEN NilDomainHandler ELSE found[1]
    /\ pc' = "handle"
    /\ UNCHANGED hostVars
    /\ UNCHANGED <<insecure, stream, certificate, r, w, conn, handler, calls,
                   accepted, lastCall>>
    /\ UNCHANGED <<clientVars, libVars, procVars>>

HostsNext ==
    \/ NewServer
    \/ GetCertificate
    \/ GetCertificateNotFound
    \/ HandleTLSLookup

SpecHosts == InitHosts /\ [][HostsNext]_vars

\* The names registered that equal the name of the ClientHello up to case.
RegisteredAs(serverName) ==
    {k \in DOMAIN registered : ToLower(k) = ToLower(serverName)}

\* C13 as stated: a connection whose server name equals a registered name up
\* to letter case is given the certificate and the handler registered under
\* that name.
C13_LookupIgnoresCase ==
    hello # <<>> =>
        \A k \in RegisteredAs(hello[1]) :
            /\ keyPair = registered[k].KeyPair
            /\ pc = "handle" => dh = registered[k]

\* C13 amended: the same for a registered name that no other registered name
\* equals up to letter case.
C13_LookupIgnoresCaseOfUniqueName ==
    (hello # <<>> /\ Cardinality(RegisteredAs(hello[1])) = 1) =>
        \A k \in RegisteredAs(hello[1]) :
            /\ keyPair = registered[k].KeyPair
            /\ pc = "handle" => dh = registered[k]

\* C13 witness: a domain registered in mixed case served a connection whose
\* server name is spelled otherwise.
C13_Witness ==
    /\ pc = "handle"
    /\ hello = << <<"A", "B">> >>
    /\ DOMAIN registered = {<<"a", "B">>, <<"g">>}
    /\ dh = DomainHandlerOf(<<"a", "B">>)
    /\ keyPair = <<"keyPair", <<"a", "B">>>>

(***************************************************************************)
(* The router: routes, segments and the Mux                                *)
(***************************************************************************)
SLASH == "/"

\* strings.TrimSuffix(s, "/")
TrimSuffixSlash(s) ==
    IF Len(s) > 0 /\ s[Len(s)] = SLASH THEN SubSeq(s, 1, Len(s) - 1) ELSE s

\* strings.TrimPrefix(s, "/")
TrimPrefixSlash(s) ==
    IF Len(s) > 0 /\ s[1] = SLASH THEN SubSeq(s, 2, Len(s)) ELSE s

\* strings.Split(s, "/"): the empty string splits into one empty string.
RECURSIVE Split(_)
Split(s) ==
    IF \E i \in 1..Len(s) : s[i] = SLASH
    THEN LET k == CHOOSE i \in 1..Len(s) : s[i] = SLASH /\ \A j \in 1..(i-1) : s[j] # SLASH
         IN  <<SubSeq(s, 1, k - 1)>> \o Split(SubSeq(s, k + 1, Len(s)))
    ELSE <<s>>

\* strings.EqualFold on the bytes of the model.
EqualFold(s, t) == ToLower(s) = ToLower(t)

\* The Segment NewRoute makes of the pattern segment seg.
NewSegment(seg) ==
    LET isVar == Len(seg) > 0 /\ seg[1] = "{" /\ seg[Len(seg)] = "}"
    IN  [Name       |-> IF isVar
                        THEN (IF Len(seg) = 1 THEN <<>> ELSE SubSeq(seg, 2, Len(seg) - 1))
                        ELSE seg,
         IsVariable |-> isVar,
         IsWildcard |-> seg = <<"*">>]

\* NewRoute(pattern)
NewRoute(pattern) ==
    LET segs == Split(TrimPrefixSlash(TrimSuffixSlash(pattern)))
    IN  [Pattern |-> pattern, Segments |-> [i \in 1..Len(segs) |-> NewSegment(segs[i])]]

\* Segment.Match(s)
SegmentMatch(ps, seg) ==
    IF ps.IsWildcard
    THEN [name |-> <<>>, capture |-> FALSE, wildcard |-> TRUE, matches |-> TRUE]
    ELSE IF ps.IsVariable
    THEN [name |-> ps.Name, capture |-> TRUE, wildcard |-> FALSE, matches |-> TRUE]
    ELSE [name |-> <<>>, capture |-> FALSE, wildcard |-> FALSE,
          matches |-> EqualFold(seg, ps.Name)]

\* The input segment the loop of Route.Match pairs with the route segment at
\* offset i from the right, counted from the left end instead.
inputSegmentFromLeft(route, segments, i) ==
    LET idx == Len(route.Segments) - i
    IN  IF idx <= Len(segments) THEN segments[idx] ELSE <<>>

\* The input segment the loop of Route.Match pairs with the route segment at
\* offset i from the right: the one at the same offset, "" when there is none.
inputSegment(route, segments, i) ==
    LET inputSegmentIndex == Len(segments) - 1 - i
    IN  IF inputSegmentIndex > -1 THEN segments[inputSegmentIndex + 1] ELSE <<>>

\* The loop of Route.Match from iteration i on, with the vars captured and
\* the wildcard flag as the iterations before left them.
RECURSIVE RouteMatchFrom(_, _, _, _, _)
RouteMatchFrom(route, segments, i, pathVars, wildcard) ==
    IF i >= Len(route.Segments) THEN [vars |-> pathVars, ok |-> TRUE]
    ELSE LET routeSegment == route.Segments[Len(route.Segments) - i]
             seg == inputSegment(route, segments, i)
             sm  == SegmentMatch(routeSegment, seg)
             wc  == IF sm.matches THEN sm.wildcard ELSE wildcard
             matches == sm.matches \/ wc
         IN  IF ~matches THEN [vars |-> pathVars, ok |-> FALSE]
             ELSE RouteMatchFrom(route, segments, i + 1,
                                 IF sm.capture THEN MapPut(pathVars, sm.name, seg)
                                 ELSE pathVars,
                                 wc)

\* Route.Match(segments)
RouteMatch(route, segments) == RouteMatchFrom(route, segments, 0, <<>>, FALSE)

\* The index of the RouteHandler the loop of Mux.ServeGemini would stop at if
\* it kept the last match: 0 when no route matches.
lastMatch(rhs, segments) ==
    LET hits == {i \in 1..Len(rhs) : RouteMatch(rhs[i].Route, segments).ok}
    IN  IF hits = {} THEN 0 ELSE CHOOSE i \in hits : \A j \in hits : j <= i

\* The index of the RouteHandler the loop of Mux.ServeGemini stops at: the
\* first whose route matches, 0 when the loop ends without a match.
firstMatch(rhs, segments) ==
    LET hits == {i \in 1..Len(rhs) : RouteMatch(rhs[i].Route, segments).ok}
    IN  IF hits = {} THEN 0 ELSE CHOOSE i \in hits : \A j \in hits : i <= j

\* The patterns routes are added with.
Patterns ==
    {<<"/">>,
     <<"/", "a">>,
     <<"/", "A", "/", "b", "/">>,
     <<"/", "{", "x", "}">>,
     <<"/", "a", "/", "{", "x", "}">>,
     <<"/", "{", "x", "}", "/", "{", "y", "}">>,
     <<"/", "{", "x", "}", "/", "b", "/", "{", "y", "}">>,
     <<"/", "*">>,
     <<"/", "a", "/", "*">>,
     <<"/", "{", "x", "}", "/", "*">>,
     <<"/", "{", "x", "}", "/", "{", "x", "}">>,
     <<"/", "a", "/", "b", "/", "*">>}

\* The paths of the requests.
Paths ==
    {<<"/">>,
     <<"/", "a">>,
     <<"/", "a", "/">>,
     <<"/", "b">>,
     <<"/", "a", "/", "b">>,
     <<"/", "a", "/", "B">>,
     <<"/", "c", "/", "b">>,
     <<"/", "c", "/", "b", "/", "d">>,
     <<"/", "c", "/", "e", "/", "d">>,
     <<"/", "a", "/", "b", "/", "d">>}

\* The most routes added to one Mux.
MaxRoutes == 3

\* The handler added with the i-th route, and the Mux's NotFoundHandler.
RouteHandlerId(i) == <<"route", i>>
NotFoundHandlerId == <<"NotFound", 0>>

\* The request handed to the Mux.
MuxRequest(path) == [URL |-> path, Certificate |-> NoCertificate, Context |-> <<>>]

\* NewMux(); the request the Mux is to serve has been made.
InitMux ==
    /\ ClientIdle
    /\ HostsIdle
    /\ ProcIdle
    /\ LibIdle
    /\ insecure = FALSE
    /\ pc = "mux"
    /\ stream = <<>>
    /\ certificate = NoCertificate
    /\ dh = "handler"
    /\ r \in {<<MuxRequest(path)>> : path \in Paths}
    /\ w = NewWriter
    /\ conn = <<>>
    /\ handler = "notInvoked"
    /\ calls = 0
    /\ accepted = <<>>
    /\ lastCall = NoCall

\* m.AddRoute(pattern, handler)
AddRoute ==
    /\ pc = "mux"
    /\ Len(RouteHandlers) < MaxRoutes
    /\ \E pattern \in Patterns :
          RouteHandlers' = Append(RouteHandlers,
                                  [Route   |-> NewRoute(pattern),
                                   Handler |-> RouteHandlerId(Len(RouteHandlers) + 1)])
    /\ UNCHANGED <<invoked, wrapper, urls, opened>>
    /\ UNCHANGED <<serverVars, clientVars, hostVars, procVars>>

\* m.ServeGemini(w, r) where a route matches: the MatchedRoute is put into the
\* request's context and the route's handler is called with the request.
MuxServeRoute ==
    /\ pc = "mux"
    /\ LET segments == Split(TrimPrefixSlash(TrimSuffixSlash(r[1].URL)))
           i  == firstMatch(RouteHandlers, segments)
       IN  /\ i # 0
           /\ LET rh == RouteHandlers[i]
                  mr == [Pattern  |-> rh.Route.Pattern,
                         PathVars |-> RouteMatch(rh.Route, segments).vars]
              IN  /\ r' = <<[r[1] EXCEPT !.Context = <<mr>>]>>
                  /\ invoked' = Append(invoked, [Handler |-> rh.Handler, r |-> r'[1]])
    /\ pc' = "served"
    /\ handler' = "returned"
    /\ UNCHANGED <<insecure, stream, certificate, dh, w, conn, calls, accepted, lastCall>>
    /\ UNCHANGED <<RouteHandlers, wrapper, urls, opened>>
    /\ UNCHANGED <<clientVars, hostVars, procVars>>

\* m.ServeGemini(w, r) where no route matches: the NotFoundHandler is called,
\* and the default one sets the header 51.
MuxServeNotFound ==
    /\ pc = "mux"
    /\ LET segments == Split(TrimPrefixSlash(TrimSuffixSlash(r[1].URL)))
       IN  firstMatch(RouteHandlers, segments) = 0
    /\ invoked' = Append(invoked, [Handler |-> NotFoundHandlerId, r |-> r[1]])
    /\ LET sh == SetHeader(w, conn, CodeNotFound, <<>>)
       IN  /\ w' = sh.w
           /\ conn' = sh.conn
           /\ lastCall' = SetHeaderCall("NotFoundHandler", CodeNotFound, <<>>, sh)
    /\ pc' = "served"
    /\ handler' = "returned"
    /\ UNCHANGED <<insecure, stream, certificate, dh, r, calls, accepted>>
    /\ UNCHANGED <<RouteHandlers, wrapper, urls, opened>>
    /\ UNCHANGED <<clientVars, hostVars, procVars>>

MuxNext ==
    \/ AddRoute
    \/ MuxServeRoute
    \/ MuxServeNotFound

SpecMux == InitMux /\ [][MuxNext]_vars

\* The segments of the path of the request the Mux served.
ServedSegments == Split(TrimPrefixSlash(TrimSuffixSlash(r[1].URL)))

\* The routes of the Mux that match the request, by their index.
MatchingRoutes ==
    {i \in 1..Len(RouteHandlers) : RouteMatch(RouteHandlers[i].Route, ServedSegments).ok}

\* C14: the Mux invokes exactly one handler per request: the handler of the
\* earliest-registered route that matches the path, whatever routes that do
\* not match were registered before it, or the NotFound handler, which sets
\* status 51, when no route matches.
C14_FirstMatchingRouteServes ==
    pc = "served" =>
        /\ Len(invoked) = 1
        /\ MatchingRoutes # {} =>
              /\ \E i \in MatchingRoutes :
                    /\ \A j \in 1..(i - 1) : j \notin MatchingRoutes
                    /\ invoked[1].Handler = RouteHandlers[i].Handler
              /\ conn = <<>>
        /\ MatchingRoutes = {} =>
              /\ invoked[1].Handler = NotFoundHandlerId
              /\ Flatten(conn) = <<"5", "1", " ", "\r", "\n">>

\* C14 witness: the third route served the request, after two different
\* routes that do not match it.
C14_Witness ==
    /\ pc = "served"
    /\ Len(RouteHandlers) = 3
    /\ invoked[1].Handler = RouteHandlerId(3)
    /\ RouteHandlers[1].Route.Pattern # RouteHandlers[2].Route.Pattern
    /\ MatchingRoutes = {3}

\* The route whose handler was invoked.
ServedRoute ==
    (CHOOSE rh \in {RouteHandlers[i] : i \in 1..Len(RouteHandlers)} :
        rh.Handler = invoked[1].Handler).Route

\* A route handler was invoked for the request.
RouteServed == pc = "served" /\ invoked[1].Handler # NotFoundHandlerId

\* The positions of the route's segments that are the variable name.
PositionsOf(route, name) ==
    {p \in 1..Len(route.Segments) :
        route.Segments[p].IsVariable /\ route.Segments[p].Name = name}

\* The names of the route's variables.
VariableNames(route) ==
    {route.Segments[p].Name : p \in {q \in 1..Len(route.Segments) : route.Segments[q].IsVariable}}

\* The MatchedRoute the invoked handler finds in the context of its request.
GotMatchedRoute == invoked[1].r.Context[1]

\* C15 as stated: the matched pattern and a variable map are attached to the
\* request context, and each variable name maps to the input segment at the
\* position of its {name} segment.
C15_VariablesByPosition ==
    RouteServed =>
        /\ invoked[1].r.Context # <<>>
        /\ GotMatchedRoute.Pattern = ServedRoute.Pattern
        /\ DOMAIN GotMatchedRoute.PathVars = VariableNames(ServedRoute)
        /\ \A name \in VariableNames(ServedRoute) :
              \A p \in PositionsOf(ServedRoute, name) :
                  /\ p <= Len(ServedSegments)
                  /\ GotMatchedRoute.PathVars[name] = ServedSegments[p]

\* The input segment as far from the right end as position p of the route
\* is: the empty string when the input is too short to have one.
SegmentAtRightOffsetOf(route, p) ==
    LET idx == Len(ServedSegments) - (Len(route.Segments) - p)
    IN  IF idx >= 1 THEN ServedSegments[idx] ELSE <<>>

\* C15 amended: each variable name maps to the input segment at the same
\* offset from the right end as its {name} segment, the leftmost one when the
\* name occurs more than once, and to the empty string when the input has no
\* segment there.
C15_VariablesByRightOffset ==
    RouteServed =>
        /\ invoked[1].r.Context # <<>>
        /\ GotMatchedRoute.Pattern = ServedRoute.Pattern
        /\ DOMAIN GotMatchedRoute.PathVars = VariableNames(ServedRoute)
        /\ \A name \in VariableNames(ServedRoute) :
              LET p == CHOOSE q \in PositionsOf(ServedRoute, name) :
                           \A q2 \in PositionsOf(ServedRoute, name) : q <= q2
              IN  GotMatchedRoute.PathVars[name] = SegmentAtRightOffsetOf(ServedRoute, p)

\* C15 witness: the route /{x}/b/{y} served /c/b/d with x = c and y = d.
C15_Witness ==
    /\ RouteServed
    /\ r[1].URL = <<"/", "c", "/", "b", "/", "d">>
    /\ GotMatchedRoute.Pattern = <<"/", "{", "x", "}", "/", "b", "/", "{", "y", "}">>
    /\ GotMatchedRoute.PathVars = (<<"x">> :> <<"c">>) @@ (<<"y">> :> <<"d">>)

\* The wildcard segment of the route is reached and matches: the route has a
\* wildcard at some position and every segment to its right matches the
\* input segment at its offset from the right end.
WildcardMatched(route) ==
    \E p \in 1..Len(route.Segments) :
        /\ route.Segments[p].IsWildcard
        /\ \A q \in (p + 1)..Len(route.Segments) :
              SegmentMatch(route.Segments[q], SegmentAtRightOffsetOf(route, q)).matches

\* C16: once the wildcard segment of a route has matched, every route segment
\* to its left is deemed matched, whatever the input's length and segments:
\* the route matches, so that the first route of a Mux serves the request.
C16_WildcardMatchesLeftward ==
    (pc = "served" /\ Len(RouteHandlers) >= 1 /\ WildcardMatched(RouteHandlers[1].Route)) =>
        /\ RouteMatch(RouteHandlers[1].Route, ServedSegments).ok
        /\ invoked[1].Handler = RouteHandlerId(1)

(***************************************************************************)
(* The handler wrappers: StripPrefixHandler and RequireCertificateHandler  *)
(***************************************************************************)
\* strings.HasPrefix(s, prefix)
HasPrefix(s, prefix) ==
    Len(prefix) <= Len(s) /\ SubSeq(s, 1, Len(prefix)) = prefix

\* strings.TrimPrefix(s, prefix)
TrimPrefix(s, prefix) ==
    IF HasPrefix(s, prefix) THEN SubSeq(s, Len(prefix) + 1, Len(s)) ELSE s

\* The handler h that is wrapped.
WrappedHandlerId == <<"h", 0>>

\* AuthoriserAllowAll
AuthoriserAllowAll(id) == TRUE

\* The call of the authoriser were every authoriser AuthoriserAllowAll.
AuthoriseIgnoringAuthoriser(authoriser, id) == AuthoriserAllowAll(id)

\* authoriser(r.Certificate.ID, r.Certificate.Key), a nil authoriser having
\* been replaced by AuthoriserAllowAll.
Authorise(authoriser, id) ==
    IF authoriser.isNil THEN AuthoriserAllowAll(id) ELSE id \in authoriser.allows

\* The request r2 StripPrefixHandler passes on and the URL objects after it,
\* r2 sharing the URL object of the request req.
stripRequestSharingURL(req, heap, p) ==
    [r2   |-> req,
     urls |-> [heap EXCEPT ![req.URL] = [@ EXCEPT !.Path = p]]]

\* The request r2 StripPrefixHandler passes on and the URL objects after it:
\* r2 is a copy of req, its URL a new copy of req's URL with the path p.
stripRequest(req, heap, p) ==
    [r2   |-> [req EXCEPT !.URL = Len(heap) + 1],
     urls |-> Append(heap, [heap[req.URL] EXCEPT !.Path = p])]

\* The paths of the requests and the prefixes stripped from them.
WrapPaths == {<<>>, <<"/">>, <<"/", "a">>, <<"/", "a", "b">>, <<"/", "a", "/", "b">>,
              <<"/", "b">>}
Prefixes == {<<>>, <<"/">>, <<"/", "a">>, <<"/", "a", "/">>, <<"/", "a", "/", "b">>}

\* The certificates of the requests: none, and two of different clients.
RequestCertificates ==
    {NoCertificate,
     [ID |-> CertificateID("der1"), Error |-> <<>>],
     [ID |-> CertificateID("der2"), Error |-> <<>>]}

\* The authorisers: nil, one that allows a single client, one that allows none.
Authorisers ==
    {[isNil |-> TRUE, allows |-> {}],
     [isNil |-> FALSE, allows |-> {CertificateID("der1")}],
     [isNil |-> FALSE, allows |-> {}]}

Wrappers ==
    {[kind |-> "StripPrefix", prefix |-> prefix, authoriser |-> NoWrapper.authoriser] :
        prefix \in Prefixes}
    \cup
    {[kind |-> "RequireCertificate", prefix |-> <<>>, authoriser |-> a] : a \in Authorisers}

\* A wrapper has been made, and a request for it to serve on a new Writer.
InitWrap ==
    /\ ClientIdle
    /\ HostsIdle
    /\ ProcIdle
    /\ RouteHandlers = <<>>
    /\ invoked = <<>>
    /\ opened = <<>>
    /\ wrapper \in Wrappers
    /\ \E path \in WrapPaths, cert \in RequestCertificates :
          /\ urls = <<[Path |-> path]>>
          /\ r = <<[URL |-> 1, Certificate |-> cert, Context |-> <<>>]>>
    /\ insecure = FALSE
    /\ pc = "wrapper"
    /\ stream = <<>>
    /\ certificate = NoCertificate
    /\ dh = "handler"
    /\ w = NewWriter
    /\ conn = <<>>
    /\ handler = "notInvoked"
    /\ calls = 0
    /\ accepted = <<>>
    /\ lastCall = NoCall

\* The handler StripPrefixHandler(prefix, h) made serves the request: h is
\* called with the stripped copy, or NotFound replies; with the empty prefix
\* the handler is h itself.
StripPrefixServeGemini ==
    /\ pc = "wrapper" /\ wrapper.kind = "StripPrefix"
    /\ LET path == urls[r[1].URL].Path
           p    == TrimPrefix(path, wrapper.prefix)
           sr   == stripRequest(r[1], urls, p)
           nf   == SetHeader(w, conn, CodeNotFound, <<>>)
       IN  IF wrapper.prefix = <<>>
           THEN /\ invoked' = Append(invoked, [Handler |-> WrappedHandlerId, r |-> r[1]])
                /\ UNCHANGED <<urls, w, conn, lastCall>>
           ELSE IF Len(p) < Len(path)
           THEN /\ urls' = sr.urls
                /\ invoked' = Append(invoked, [Handler |-> WrappedHandlerId, r |-> sr.r2])
                /\ UNCHANGED <<w, conn, lastCall>>
           ELSE /\ w' = nf.w
                /\ conn' = nf.conn
                /\ lastCall' = SetHeaderCall("NotFound", CodeNotFound, <<>>, nf)
                /\ UNCHANGED <<urls, invoked>>
    /\ pc' = "served"
    /\ handler' = "returned"
    /\ UNCHANGED <<insecure, stream, certificate, dh, r, calls, accepted>>
    /\ UNCHANGED <<RouteHandlers, wrapper, opened>>
    /\ UNCHANGED <<clientVars, hostVars, procVars>>

\* The handler RequireCertificateHandler(h, authoriser) made serves the request.
RequireCertificateServeGemini ==
    /\ pc = "wrapper" /\ wrapper.kind = "RequireCertificate"
    /\ LET required == SetHeader(w, conn, CodeClientCertificateRequired, <<>>)
           refused  == SetHeader(w, conn, CodeClientCertificateNotAuthorised, <<>>)
       IN  IF r[1].Certificate.ID = <<>>
           THEN /\ w' = required.w
                /\ conn' = required.conn
                /\ lastCall' = SetHeaderCall("RequireCertificate",
                                             CodeClientCertificateRequired, <<>>, required)
                /\ UNCHANGED invoked
           ELSE IF ~Authorise(wrapper.authoriser, r[1].Certificate.ID)
           THEN /\ w' = refused.w
                /\ conn' = refused.conn
                /\ lastCall' = SetHeaderCall("RequireCertificate",
                                             CodeClientCertificateNotAuthorised, <<>>, refused)
                /\ UNCHANGED invoked
           ELSE /\ invoked' = Append(invoked, [Handler |-> WrappedHandlerId, r |-> r[1]])
                /\ UNCHANGED <<w, conn, lastCall>>
    /\ pc' = "served"
    /\ handler' = "returned"
    /\ UNCHANGED <<insecure, stream, certificate, dh, r, calls, accepted>>
    /\ UNCHANGED <<RouteHandlers, wrapper, urls, opened>>
    /\ UNCHANGED <<clientVars, hostVars, procVars>>

WrapNext ==
    \/ StripPrefixServeGemini
    \/ RequireCertificateServeGemini

SpecWrap == InitWrap /\ [][WrapNext]_vars

\* The handler made by RequireCertificateHandler has served the request.
RequireCertificateServed == pc = "served" /\ wrapper.kind = "RequireCertificate"

\* C17: RequireCertificateHandler invokes the wrapped handler only when the
\* request's Certificate.ID is non-empty and the authoriser returns true; it
\* emits 60 when the ID is empty and 61 when the authoriser returns false.
C17_CertificateRequired ==
    RequireCertificateServed =>
        LET id == r[1].Certificate.ID
            allowed_ == wrapper.authoriser.isNil \/ id \in wrapper.authoriser.allows
        IN  /\ invoked # <<>> => (id # <<>> /\ allowed_)
            /\ id = <<>> =>
                  (invoked = <<>> /\ Flatten(conn) = <<"6", "0", " ", "\r", "\n">>)
            /\ (id # <<>> /\ ~allowed_) =>
                  (invoked = <<>> /\ Flatten(conn) = <<"6", "1", " ", "\r", "\n">>)
            /\ (id # <<>> /\ allowed_) =>
                  (conn = <<>> /\ invoked = <<[Handler |-> WrappedHandlerId, r |-> r[1]]>>)

\* C17 witness: all three outcomes are distinguished by the state; this one
\* is the authoriser refusing a client that presented a certificate.
C17_Witness ==
    /\ RequireCertificateServed
    /\ r[1].Certificate.ID = CertificateID("der2")
    /\ ~wrapper.authoriser.isNil
    /\ wrapper.authoriser.allows = {CertificateID("der1")}
    /\ invoked = <<>>
    /\ w.Code = CodeClientCertificateNotAuthorised

\* The handler made by StripPrefixHandler serves the request in this step.
IsStripPrefixStep ==
    pc = "wrapper" /\ wrapper.kind = "StripPrefix" /\ pc' = "served"

DOT == "."
DotDot == <<DOT, DOT>>
IndexGmi == <<"i", "n", "d", "e", "x", ".", "g", "m", "i">>

CodeRedirectPermanent == <<"3", "1">>
CodeTemporaryFailure == <<"4", "0">>

FileOpenFailed == <<"f", "i", "l", "e", " ", "o", "p", "e", "n", " ", "f", "a", "i", "l", "e", "d">>
FileStatFailed == <<"f", "i", "l", "e", " ", "s", "t", "a", "t", " ", "f", "a", "i", "l", "e", "d">>
ReaddirFailed == <<"r", "e", "a", "d", "d", "i", "r", " ", "f", "a", "i", "l", "e", "d">>

\* strings.HasPrefix(s, sub) in the place of strings.Contains(s, sub).
ContainsAtStart(s, sub) ==
    Len(sub) <= Len(s) /\ SubSeq(s, 1, Len(sub)) = sub

\* strings.Contains(s, sub)
Contains(s, sub) ==
    \E i \in 0..(Len(s) - Len(sub)) : SubSeq(s, i + 1, i + Len(sub)) = sub

\* strings.HasSuffix(s, suffix)
HasSuffix(s, suffix) ==
    Len(suffix) <= Len(s) /\ SubSeq(s, Len(s) - Len(suffix) + 1, Len(s)) = suffix

\* strings.Join(segs, "/")
RECURSIVE JoinSlash(_)
JoinSlash(segs) ==
    IF segs = <<>> THEN <<>>
    ELSE IF Len(segs) = 1 THEN segs[1]
    ELSE segs[1] \o <<SLASH>> \o JoinSlash(Tail(segs))

\* The elements path.Clean keeps of a rooted path: empty elements and "."
\* go, ".." removes the element before it and goes itself at the root.
RECURSIVE cleanSegments(_, _)
cleanSegments(segs, out) ==
    IF segs = <<>> THEN out
    ELSE LET s == Head(segs)
         IN  IF s = <<>> \/ s = <<DOT>> THEN cleanSegments(Tail(segs), out)
             ELSE IF s = DotDot
             THEN cleanSegments(Tail(segs),
                                IF out = <<>> THEN out ELSE SubSeq(out, 1, Len(out) - 1))
             ELSE cleanSegments(Tail(segs), Append(out, s))

\* path.Clean(rooted) for a path that starts with a slash.
Clean(rooted) == <<SLASH>> \o JoinSlash(cleanSegments(Split(rooted), <<>>))

\* path.Ext(name): the suffix from the last dot of the last element.
Ext(name) ==
    LET dots == {i \in 1..Len(name) :
                    name[i] = DOT /\ \A j \in (i + 1)..Len(name) : name[j] \notin {DOT, SLASH}}
    IN  IF dots = {} THEN <<>>
        ELSE LET i == CHOOSE k \in dots : TRUE IN SubSeq(name, i, Len(name))

\* mime.TypeByExtension(ext): the one built-in type the files of the model
\* have, the empty string for every other extension.
TypeByExtension(ext) ==
    IF ext = <<".", "p", "d", "f">> THEN <<"a", "p", "p", "l", "i", "c", "a", "t", "i", "o", "n", "/", "p", "d", "f">>
    ELSE <<>>

\* The escaping of url.URL{Path: name}.String() on the bytes of the model:
\* a space becomes %20, letters, dots and slashes stay.
RECURSIVE EscapedPath(_)
EscapedPath(name) ==
    IF name = <<>> THEN <<>>
    ELSE (IF Head(name) = SP THEN <<"%", "2", "0">> ELSE <<Head(name)>>)
         \o EscapedPath(Tail(name))

RegularFile(name, content) ==
    [IsDir |-> FALSE, Name |-> name, Content |-> content, Entries |-> <<>>]
Directory(name, entries) ==
    [IsDir |-> TRUE, Name |-> name, Content |-> <<>>, Entries |-> entries]

\* The directory the handler serves, by cleaned name: a directory with an
\* index.gmi, one without that holds a directory and two files.
TestsDir ==
    (<<SLASH>> :> Directory(<<SLASH>>, <<<<"a">>, <<"b">>>>))
    @@ (<<"/", "a">> :> Directory(<<"a">>, <<IndexGmi>>))
    @@ (<<"/", "a", "/", "i", "n", "d", "e", "x", ".", "g", "m", "i">> :> RegularFile(IndexGmi, <<"#", LF>>))
    @@ (<<"/", "b">> :> Directory(<<"b">>, <<<<"c">>, <<"n">>, <<"p", " ", ".", "p", "d", "f">>>>))
    @@ (<<"/", "b", "/", "c">> :> Directory(<<"c">>, <<>>))
    @@ (<<"/", "b", "/", "n">> :> RegularFile(<<"n">>, <<>>))
    @@ (<<"/", "b", "/", "p", " ", ".", "p", "d", "f">> :> RegularFile(<<"p", " ", ".", "p", "d", "f">>, <<"%">>))

\* Dir.Open(name): the file at path.Clean("/" + name) under the directory.
DirOpen(d, name) ==
    LET fullName == Clean(<<SLASH>> \o name)
    IN  IF fullName \in DOMAIN d
        THEN [f |-> <<fullName>>, err |-> "nil"]
        ELSE [f |-> <<>>, err |-> "ErrNotExist"]

\* The calls a handler makes on its ResponseWriter, in order.
SetHeaderOp(code, meta) == [op |-> "SetHeader", code |-> code, meta |-> meta, p |-> <<>>]
WriteOp(p) == [op |-> "Write", code |-> <<>>, meta |-> <<>>, p |-> p]

\* The Writer and the connection after the calls from position i.
RECURSIVE ApplyCalls(_, _, _, _)
ApplyCalls(ops, i, gw, cn) ==
    IF i > Len(ops) THEN [w |-> gw, conn |-> cn]
    ELSE LET res == IF ops[i].op = "SetHeader"
                    THEN SetHeader(gw, cn, ops[i].code, ops[i].meta)
                    ELSE Write(gw, cn, ops[i].p)
         IN  ApplyCalls(ops, i + 1, res.w, res.conn)

\* The line DirectoryListingHandler writes for the entry ff.
EntryLine(ff) ==
    <<"=", ">", SP>>
    \o EscapedPath(IF ff.IsDir THEN ff.Name \o <<SLASH>> ELSE ff.Name)
    \o <<LF>>

\* DirectoryListingHandler(path, f).ServeGemini on the open directory dir;
\* Readdir returns the entries, here already in the order of their names.
DirectoryListingHandler(d, path, dir, ioErr) ==
    IF ioErr = "readdir"
    THEN <<SetHeaderOp(CodeTemporaryFailure, ReaddirFailed)>>
    ELSE <<SetHeaderOp(CodeSuccess, DefaultMIMEType),
           WriteOp(<<"#", " ", "I", "n", "d", "e", "x", " ", "o", "f", " ">> \o path \o <<LF, LF>>),
           WriteOp(<<"=", ">", SP, DOT, DOT, SLASH, LF>>)>>
         \o [i \in 1..Len(d[dir].Entries) |->
                WriteOp(EntryLine(d[Clean(dir \o <<SLASH>> \o d[dir].Entries[i])]))]

\* FileContentHandler(name, f).ServeGemini: io.Copy writes the content, and
\* nothing when the file is empty.
FileContentHandler(name, content) ==
    <<SetHeaderOp(CodeSuccess,
                  IF TypeByExtension(Ext(name)) = <<>> THEN DefaultMIMEType
                  ELSE TypeByExtension(Ext(name)))>>
    \o (IF content = <<>> THEN <<>> ELSE <<WriteOp(content)>>)

\* What FileSystemHandler(d) does with an open file f for the path: the
\* calls on the ResponseWriter and the names Open is called with.
serveOpenFile(d, path, f, ioErr) ==
    IF ioErr = "stat"
    THEN [ops |-> <<SetHeaderOp(CodeTemporaryFailure, FileStatFailed)>>,
          opened |-> <<path>>]
    ELSE IF d[f].IsDir
    THEN IF ~HasSuffix(path, <<SLASH>>)
         THEN [ops |-> <<SetHeaderOp(CodeRedirectPermanent, path \o <<SLASH>>)>>,
               opened |-> <<path>>]
         ELSE LET index == DirOpen(d, path \o IndexGmi)
              IN  [ops |-> IF index.err = "ErrNotExist"
                           THEN DirectoryListingHandler(d, path, f, ioErr)
                           ELSE FileContentHandler(IndexGmi, d[index.f[1]].Content),
                   opened |-> <<path, path \o IndexGmi>>]
    ELSE [ops |-> FileContentHandler(d[f].Name, d[f].Content), opened |-> <<path>>]

\* FileSystemHandler(d).ServeGemini for a request with the URL path urlPath:
\* the calls on the ResponseWriter, the path left in the request's URL and
\* the names Open is called with.
FileSystemHandler(d, urlPath, ioErr) ==
    IF Contains(urlPath, DotDot)
    THEN [ops |-> <<SetHeaderOp(CodeBadRequest, <<>>)>>, path |-> urlPath,
          opened |-> <<>>]
    ELSE LET path == IF HasPrefix(urlPath, <<SLASH>>) THEN urlPath
                     ELSE <<SLASH>> \o urlPath
             o    == DirOpen(d, path)
         IN  IF o.err # "nil"
             THEN [ops |-> <<SetHeaderOp(CodeTemporaryFailure, FileOpenFailed)>>,
                   path |-> path, opened |-> <<path>>]
             ELSE LET res == serveOpenFile(d, path, o.f[1], ioErr)
                  IN  [ops |-> res.ops, path |-> path, opened |-> res.opened]

\* The elements the request paths are made of, and the most a path has.
PathElements == {<<>>, <<"a">>, <<"b">>, <<"c">>, <<"n">>, IndexGmi, DotDot, <<DOT>>,
                 <<"p", " ", ".", "p", "d", "f">>, <<"n", DOT, DOT>>}
MaxElements == 3

RECURSIVE ElementSeqs(_)
ElementSeqs(n) ==
    IF n = 0 THEN {<<>>}
    ELSE {<<>>} \cup {<<e>> \o es : e \in PathElements, es \in ElementSeqs(n - 1)}

\* The paths of the requests: with and without the leading slash.
FilePaths == {JoinSlash(es) : es \in ElementSeqs(MaxElements)}
             \cup {<<SLASH>> \o JoinSlash(es) : es \in ElementSeqs(MaxElements)}

\* The failures of the operating system the handler can meet on an open file.
IOErrors == {"none", "stat", "readdir"}

\* FileSystemHandler(Dir("tests")) is about to serve a request on a new Writer.
InitFiles ==
    /\ ClientIdle
    /\ HostsIdle
    /\ ProcIdle
    /\ RouteHandlers = <<>>
    /\ invoked = <<>>
    /\ wrapper = NoWrapper
    /\ opened = <<>>
    /\ insecure = FALSE
    /\ pc = "files"
    /\ stream = <<>>
    /\ certificate = NoCertificate
    /\ dh = "handler"
    /\ w = NewWriter
    /\ conn = <<>>
    /\ handler = "notInvoked"
    /\ calls = 0
    /\ accepted = <<>>
    /\ lastCall = NoCall
    /\ r = <<[URL |-> 1, Certificate |-> NoCertificate, Context |-> <<>>]>>
    /\ \E path \in FilePaths : urls = <<[Path |-> path]>>

\* The handler serves the request.
FileSystemServeGemini ==
    /\ pc = "files"
    /\ \E ioErr \in IOErrors :
          LET res   == FileSystemHandler(TestsDir, urls[r[1].URL].Path, ioErr)
              after == ApplyCalls(res.ops, 1, w, conn)
          IN  /\ w' = after.w
              /\ conn' = after.conn
              /\ urls' = [urls EXCEPT ![r[1].URL].Path = res.path]
              /\ opened' = opened \o res.opened
    /\ pc' = "served"
    /\ handler' = "returned"
    /\ UNCHANGED <<insecure, stream, certificate, dh, r, calls, accepted, lastCall>>
    /\ UNCHANGED <<RouteHandlers, invoked, wrapper>>
    /\ UNCHANGED <<clientVars, hostVars, procVars>>

FilesNext == FileSystemServeGemini

SpecFiles == InitFiles /\ [][FilesNext]_vars

\* Two dots follow each other somewhere in the path p.
HasDotDot(p) == \E i \in 1..(Len(p) - 1) : p[i] = DOT /\ p[i + 1] = DOT

\* C19: FileSystemHandler replies 59 and never opens any file for a request
\* whose path contains ".." (directory traversal is deflected).
C19_TraversalDeflected ==
    (pc = "served" /\ HasDotDot(urls[r[1].URL].Path)) =>
        /\ Flatten(conn) = <<"5", "9", " ", "\r", "\n">>
        /\ opened = <<>>

\* C19 witness: the request for ../a/index.gmi has been served.
C19_Witness ==
    /\ pc = "served"
    /\ urls[r[1].URL].Path = DotDot \o <<SLASH>> \o <<"a", "/", "i", "n", "d", "e", "x", ".", "g", "m", "i">>
    /\ w.Code = CodeBadRequest
    /\ opened = <<>>

\* The path of the served request names no file of the directory.
NamesNoFile ==
    /\ pc = "served"
    /\ ~HasDotDot(urls[r[1].URL].Path)
    /\ Clean(<<SLASH>> \o urls[r[1].URL].Path) \notin DOMAIN TestsDir

\* C20: FileSystemHandler replies with status 51 (not found) and an empty
\* body for a path that names no existing file.
C20_MissingFileNotFound ==
    NamesNoFile => Flatten(conn) = <<"5", "1", " ", "\r", "\n">>

(***************************************************************************)
(* The code predicates and the request subcommand                          *)
(***************************************************************************)

\* IsErrorCode(code)
IsErrorCode(code) ==
    IF ~isValidCode(code) \/ Len(code) # 2 THEN FALSE
    ELSE code[1] = "4" \/ code[1] = "5" \/ code[1] = "6"

\* The bytes codes are made of and the longest code looked at.
CodeBytes == {"0", "1", "2", "3", "4", "5", "6", "7", "a"}
MaxCodeLen == 3
CheckedCodes == UNION {[1..n -> CodeBytes] : n \in 0..MaxCodeLen}

\* A code is about to be handed to IsErrorCode.
InitCodes ==
    /\ ServerIdle
    /\ ClientIdle
    /\ HostsIdle
    /\ LibIdle
    /\ ListenIdle
    /\ SharedIdle
    /\ ReaderIdle
    /\ PickIdle
    /\ cmd = NoCmd
    /\ checked \in {[code |-> c, IsErrorCode |-> <<>>] : c \in CheckedCodes}

\* IsErrorCode(checked.code) returns.
CallIsErrorCode ==
    /\ checked.IsErrorCode = <<>>
    /\ checked' = [checked EXCEPT !.IsErrorCode = <<IsErrorCode(checked.code)>>]
    /\ UNCHANGED <<serverVars, clientVars, hostVars, libVars, cmd, listenVars, sharedVars,
                   readerVars, pickVars>>

CodesNext == CallIsErrorCode

SpecCodes == InitCodes /\ [][CodesNext]_vars

\* The code c passes isValidCode: it is not empty and starts with 1 to 6.
ValidCode(c) == Len(c) > 0 /\ c[1] \in {"1", "2", "3", "4", "5", "6"}

\* C23: IsErrorCode returns true if the code is invalid, or starts with 4, 5
\* or 6, and returns false for every valid code that starts with 1, 2 or 3.
C23_IsErrorCode ==
    checked.IsErrorCode # <<>> =>
        LET c == checked.code
        IN  checked.IsErrorCode[1] =
                (~ValidCode(c) \/ c[1] \in {"4", "5", "6"})

\* client.AddClientCertificate(prefix, cert) on the map m.
AddClientCertificate(m, prefix, cert) == MapPut(m, prefix, cert)

\* The prefixes of the map m that u.String() starts with.
MatchingPrefixes(m, u) == {k \in DOMAIN m : HasPrefix(URLString(u), k)}

\* GetCertificate that ranges over the prefixes in their sorted order, here
\* the shortest first.
GetCertificateSorted(m, u) ==
    IF MatchingPrefixes(m, u) = {} THEN {<<>>}
    ELSE {<<m[k]>> : k \in {x \in MatchingPrefixes(m, u) :
                                \A y \in MatchingPrefixes(m, u) : Len(x) <= Len(y)}}

\* Client.GetCertificate(u) on the map m: what it may return, <<>> for not
\* ok.  The range over the map visits the prefixes in an order that is not
\* fixed and returns at the first that u.String() starts with.
ClientGetCertificate(m, u) ==
    IF MatchingPrefixes(m, u) = {} THEN {<<>>}
    ELSE {<<m[k]>> : k \in MatchingPrefixes(m, u)}

\* The key pair tls.LoadX509KeyPair(certFile, keyFile) returns.
LoadedKeyPair == "keyPair1"

\* The result of RequestNoTLS over a connection on which RequestConn gave rc.
noTLSResult(base, rc, answer) ==
    [base EXCEPT !.sent = rc.sent, !.resp = rc.resp, !.err = rc.err,
                 !.response = <<answer>>]

\* Client.RequestNoTLS: dial is <<>> when the connection fails.
RequestNoTLS(u, dial, answer) ==
    IF dial = <<>>
    THEN [NoRequest EXCEPT !.u = u, !.connected = FALSE, !.err = ErrConnecting]
    ELSE noTLSResult([NoRequest EXCEPT !.u = u, !.connected = TRUE],
                     RequestConn(u, AnswerBytes(answer)), answer)

\* The exits of the request subcommand once the client has returned res:
\* keyPairLoaded says whether tls.LoadX509KeyPair succeeds, mutual is
\* NegotiatedProtocolIsMutual of the connection, scanFails whether the
\* Scanner over the body ends with an error.  The result is the command
\* with its exit status and what the request returned.
requestExit(flags, keyPairLoaded, mutual, scanFails, res) ==
    LET ok   == IF flags.noTLS THEN TRUE ELSE res.ok
        authenticated == ~flags.noTLS /\ res.sent # <<>> /\ mutual
        exited(c, q, n) == [cmd |-> [c EXCEPT !.exit = <<n>>], lastReq |-> q]
        met  == [flags EXCEPT !.keyPairLoaded = flags.certFile /\ keyPairLoaded]
        metA == [met EXCEPT !.authenticated = authenticated]
        metS == [metA EXCEPT !.scanErr = scanFails]
    IN  IF flags.certFile /\ ~keyPairLoaded THEN exited(met, NoRequest, 1)
        ELSE IF res.err # "nil" THEN exited(met, res, 1)
        ELSE IF ~ok /\ ~flags.insecure THEN exited(met, res, 1)
        ELSE IF flags.certFile /\ ~authenticated THEN exited(metA, res, 1)
        ELSE IF ~flags.headers /\ scanFails THEN exited(metS, res, 1)
        ELSE IF IsErrorCode(res.resp[1].Header.Code) THEN exited(metA, res, 1)
        ELSE exited(metA, res, 0)

\* The request subcommand from the parsed flags on, with a new client at
\* time t.
request(flags, keyPairLoaded, mutual, scanFails, t, u, dial, answer) ==
    requestExit(flags, keyPairLoaded, mutual, scanFails,
                IF flags.noTLS THEN RequestNoTLS(u, dial, answer)
                ELSE RequestURL({}, flags.insecure, t, u, dial, answer, <<>>))

\* The answers of the server the command talks to: one code of each class,
\* two codes that are not two bytes long, one no client accepts.
CmdCodes == {CodeSuccess, CodeInput, <<"4", "4">>, CodeNotFound,
             CodeClientCertificateNotValid, <<"4">>, <<"4", "0", "0">>, <<"9">>}
CmdAnswers == {[code |-> c, meta |-> <<"m">>, body |-> <<"b">>] : c \in CmdCodes}

\* The flags of the command: --noTLS, --insecure, --certFile, --headers.
CmdFlags ==
    {[NoCmd EXCEPT !.noTLS = n, !.insecure = i, !.certFile = c, !.headers = h] :
        n \in BOOLEAN, i \in BOOLEAN, c \in BOOLEAN, h \in BOOLEAN}

\* gemini request [flags] gemini://h/ has parsed its flags and the URL.
InitCmd ==
    /\ ClientIdle
    /\ HostsIdle
    /\ LibIdle
    /\ insecure = FALSE
    /\ pc = "request"
    /\ stream = <<>>
    /\ certificate = NoCertificate
    /\ dh = "nil"
    /\ r = NilRequest
    /\ w = NewWriter
    /\ conn = <<>>
    /\ handler = "notInvoked"
    /\ calls = 0
    /\ accepted = <<>>
    /\ lastCall = NoCall
    /\ checked = NoCheck
    /\ ListenIdle
    /\ SharedIdle
    /\ ReaderIdle
    /\ PickIdle
    /\ cmd \in CmdFlags

\* The command runs to its exit.
RequestCmd ==
    LET exits(run) == cmd' = run.cmd /\ lastReq' = run.lastReq IN
    /\ pc = "request"
    /\ \E keyPairLoaded \in BOOLEAN, mutual \in BOOLEAN, scanFails \in BOOLEAN,
          dial \in {<<>>} \cup {<<chain>> : chain \in Chains},
          answer \in CmdAnswers :
          LET u == [Host |-> <<"h">>, Path |-> <<"/">>]
              m == IF cmd.certFile /\ keyPairLoaded
                   THEN AddClientCertificate(<<>>, <<SLASH>>, LoadedKeyPair)
                   ELSE <<>>
          IN  /\ exits(request(cmd, keyPairLoaded, mutual, scanFails, clock, u, dial,
                               answer))
              /\ prefixToCertificate' = m
              /\ IF cmd.noTLS \/ (cmd.certFile /\ ~keyPairLoaded)
                 THEN picked' = <<>>
                 ELSE \E c \in ClientGetCertificate(m, u) :
                          picked' = <<[u |-> u, m |-> m, cert |-> c]>>
    /\ clientInsecure' = cmd.insecure
    /\ pc' = "exited"
    /\ UNCHANGED <<insecure, stream, certificate, dh, r, w, conn, handler, calls,
                   accepted, lastCall>>
    /\ UNCHANGED <<allowed, clock, adds, nAdds>>
    /\ UNCHANGED <<hostVars, libVars, checked, listenVars, sharedVars, readerVars>>

CmdNext == RequestCmd

SpecCmd == InitCmd /\ [][CmdNext]_vars

\* The command has exited after a response whose header the client read.
ExitedAfterResponse ==
    /\ pc = "exited"
    /\ lastReq.resp # <<>>
    /\ lastReq.err = "nil"
    /\ cmd.keyPairLoaded = cmd.certFile

\* C21: the request subcommand exits with status 1 on a network failure, on
\* an untrusted server certificate without --insecure, and for every
\* response whose status starts with 4, 5 or 6; it exits 0 otherwise.
C21_RequestExitStatus ==
    /\ (pc = "exited" /\ ~lastReq.connected) => cmd.exit = <<1>>
    /\ (pc = "exited" /\ ~cmd.noTLS /\ ~cmd.insecure) => cmd.exit = <<1>>
    /\ (ExitedAfterResponse
           /\ lastReq.resp[1].Header.Code[1] \in {"4", "5", "6"}) => cmd.exit = <<1>>

\* C22: the fingerprint the client computes, reports and compares for a peer
\* certificate is the base64-standard encoding of the SHA-256 of the
\* certificate's DER bytes, i.e. the same value the server computes as
\* Certificate.ID for that certificate.
C22_FingerprintIsCertificateID ==
    \A i \in 1..Len(lastReq.certificates) :
        lastReq.certificates[i] = CertificateID(lastReq.chain[i].Raw)

\* C30: for every connection on which the server reads a request, exactly
\* one response header line has been written to the connection when the
\* connection task ends, whatever the handler does (nothing, any number of
\* SetHeader calls with any code value, Write calls, or a panic).
C30_ExactlyOneHeader ==
    (pc = "closed" /\ r # NilRequest) => HeaderCount(conn) = 1

(***************************************************************************)
(* The accept loop and its connection tasks                                *)
(***************************************************************************)

\* The most connections the listener accepts.
MaxConns == 2

\* What the peer of a connection and the handler serving it do: the client
\* completes or fails the handshake or goes silent in it, sends a request, a
\* malformed one, one with a certificate outside its validity or none at
\* all; the handler returns, panics or never returns.
Behaviours ==
    {[client |-> c, handler |-> "returns"] :
        c \in {"badHandshake", "stallHandshake", "badRequest", "stallRequest", "certError"}}
    \cup {[client |-> "ok", handler |-> h] : h \in {"returns", "panics", "hangs"}}

\* The behaviours met on a connection without TLS.
InsecureBehaviours ==
    {b \in Behaviours : b.client \in {"ok", "badRequest", "stallRequest"}}

\* The task of the go statement for a connection accepted when the context
\* was cancelled or not: handleTLS is in conn.Handshake() and no deadline is
\* set; without TLS handle has set the read deadline and parseRequest reads.
NewTask(tls, b, cancelled) ==
    [state |-> IF tls THEN "handshake" ELSE "parse", readDeadline |-> ~tls,
     client |-> b.client, handler |-> b.handler, closed |-> FALSE, how |-> "running",
     afterCancel |-> cancelled]

\* The task ends, the connection closed only when the handler has returned.
taskEndCloseOnReturn(t, how) ==
    [t EXCEPT !.state = "ended", !.how = how, !.closed = (how = "returned")]

\* The task ends in the way how: the deferred conn.Close() runs.
taskEnd(t, how) == [t EXCEPT !.state = "ended", !.how = how, !.closed = TRUE]

\* The tasks the loop waits for were each connection handled in the loop.
blockedByRunning(ts) == {c \in DOMAIN ts : ts[c].state # "ended"}

\* The tasks the accept loop waits for before it goes on: none, each
\* connection being handed to a go statement.
blockedBy(ts) == {}

\* ListenAndServe has opened the listener and enters serveTLS or serveInsecure.
InitListen ==
    /\ ClientIdle
    /\ HostsIdle
    /\ LibIdle
    /\ CmdIdle
    /\ SharedIdle
    /\ ReaderIdle
    /\ PickIdle
    /\ insecure \in BOOLEAN
    /\ pc = "listening"
    /\ stream = <<>>
    /\ certificate = NoCertificate
    /\ dh = "handler"
    /\ r = NilRequest
    /\ w = NewWriter
    /\ conn = <<>>
    /\ handler = "notInvoked"
    /\ calls = 0
    /\ accepted = <<>>
    /\ lastCall = NoCall
    /\ ctxDone = FALSE
    /\ loop = "check"
    /\ tasks = <<>>

\* The context of the server is cancelled.
CancelContext ==
    /\ ~ctxDone
    /\ ctxDone' = TRUE
    /\ UNCHANGED <<loop, tasks>>
    /\ UNCHANGED <<serverVars, clientVars, hostVars, libVars, cmdVars, sharedVars,
                   readerVars, pickVars>>

\* The head of the loop: srv.Context.Err() is tested, then Accept is called.
LoopCheck ==
    /\ loop = "check"
    /\ blockedBy(tasks) = {}
    /\ loop' = IF ctxDone THEN "returned" ELSE "accept"
    /\ UNCHANGED <<ctxDone, tasks>>
    /\ UNCHANGED <<serverVars, clientVars, hostVars, libVars, cmdVars, sharedVars,
                   readerVars, pickVars>>

\* Accept returns an error: it is logged and the loop continues.
LoopAcceptError ==
    /\ loop = "accept"
    /\ loop' = "check"
    /\ UNCHANGED <<ctxDone, tasks>>
    /\ UNCHANGED <<serverVars, clientVars, hostVars, libVars, cmdVars, sharedVars,
                   readerVars, pickVars>>

\* A client connects: Accept returns the connection and the go statement
\* starts its task.
LoopAccept ==
    /\ loop = "accept"
    /\ Len(tasks) < MaxConns
    /\ \E b \in IF insecure THEN InsecureBehaviours ELSE Behaviours :
          tasks' = Append(tasks, NewTask(~insecure, b, ctxDone))
    /\ loop' = "check"
    /\ UNCHANGED ctxDone
    /\ UNCHANGED <<serverVars, clientVars, hostVars, libVars, cmdVars, sharedVars,
                   readerVars, pickVars>>

\* conn.Handshake() returns in handleTLS: on an error the task ends, else
\* handle sets the read deadline and parseRequest starts to read.
HandshakeReturns(c) ==
    /\ tasks[c].state = "handshake"
    /\ tasks[c].client # "stallHandshake"
    /\ tasks' = [tasks EXCEPT ![c] =
                    IF @.client = "badHandshake" THEN taskEnd(@, "handshakeFailed")
                    ELSE [@ EXCEPT !.state = "parse", !.readDeadline = TRUE]]
    /\ UNCHANGED <<ctxDone, loop>>
    /\ UNCHANGED <<serverVars, clientVars, hostVars, libVars, cmdVars, sharedVars,
                   readerVars, pickVars>>

\* The read deadline passes while the task waits for bytes of the client.
ReadDeadlineExpires(c) ==
    /\ tasks[c].readDeadline
    /\ \/ tasks[c].state = "handshake" /\ tasks[c].client = "stallHandshake"
       \/ tasks[c].state = "parse" /\ tasks[c].client = "stallRequest"
    /\ tasks' = [tasks EXCEPT ![c] = taskEnd(@, "timeout")]
    /\ UNCHANGED <<ctxDone, loop>>
    /\ UNCHANGED <<serverVars, clientVars, hostVars, libVars, cmdVars, sharedVars,
                   readerVars, pickVars>>

\* parseRequest returns in handle: the task ends on a malformed request and
\* on a certificate error, else the handler is called.
ParseReturns(c) ==
    /\ tasks[c].state = "parse"
    /\ tasks[c].client # "stallRequest"
    /\ tasks' = [tasks EXCEPT ![c] =
                    IF @.client = "badRequest" THEN taskEnd(@, "parseFailed")
                    ELSE IF @.client = "certError" THEN taskEnd(@, "certificateError")
                    ELSE [@ EXCEPT !.state = "serving"]]
    /\ UNCHANGED <<ctxDone, loop>>
    /\ UNCHANGED <<serverVars, clientVars, hostVars, libVars, cmdVars, sharedVars,
                   readerVars, pickVars>>

\* The handler returns or panics; after a panic the deferred recover runs.
HandlerEnds(c) ==
    /\ tasks[c].state = "serving"
    /\ tasks[c].handler # "hangs"
    /\ tasks' = [tasks EXCEPT ![c] =
                    taskEnd(@, IF @.handler = "panics" THEN "panicked" ELSE "returned")]
    /\ UNCHANGED <<ctxDone, loop>>
    /\ UNCHANGED <<serverVars, clientVars, hostVars, libVars, cmdVars, sharedVars,
                   readerVars, pickVars>>

TaskNext(c) ==
    \/ HandshakeReturns(c)
    \/ ReadDeadlineExpires(c)
    \/ ParseReturns(c)
    \/ HandlerEnds(c)

ListenNext ==
    \/ CancelContext
    \/ LoopCheck
    \/ LoopAcceptError
    \/ LoopAccept
    \/ \E c \in DOMAIN tasks : TaskNext(c)

SpecListen == InitListen /\ [][ListenNext]_vars

\* The scheduler runs every goroutine that can run: the loop and the tasks.
SpecListenFair ==
    /\ SpecListen
    /\ WF_vars(LoopCheck)
    /\ \A c \in 1..MaxConns : WF_vars(c \in DOMAIN tasks /\ TaskNext(c))

\* C24: once the server context is cancelled, the accept loop stops: no
\* connection accepted after the cancellation is handed to a handler, and
\* ListenAndServe eventually returns.
C24_NoAcceptAfterCancel ==
    \A c \in DOMAIN tasks : ~tasks[c].afterCancel

\* Neither the client nor the handler of the task t goes silent.
Responsive(t) ==
    t.client \notin {"stallHandshake", "stallRequest"} /\ t.handler # "hangs"

\* The task t waits for ever: for bytes that never come, with no deadline
\* set, or for a handler that never returns.
Stalled(t) ==
    \/ t.state = "handshake" /\ t.client = "stallHandshake" /\ ~t.readDeadline
    \/ t.state = "serving" /\ t.handler = "hangs"

\* C25: each accepted connection is served by its own task: a connection
\* whose client stalls or whose handler never returns does not prevent the
\* accept loop from accepting later connections, nor those connections from
\* being served to completion.
C25_TasksIndependent ==
    /\ []<>(loop \in {"accept", "returned"})
    /\ \A c \in 1..MaxConns :
          [](c \in DOMAIN tasks =>
                <>(c \in DOMAIN tasks
                      /\ (Stalled(tasks[c]) \/ tasks[c].state = "ended")))

\* C25 witness: the first connection is stalled for ever, the second one was
\* accepted after it and has been served to its end.
C25_Witness ==
    /\ Len(tasks) = 2
    /\ Stalled(tasks[1])
    /\ Responsive(tasks[2])
    /\ tasks[2].state = "ended"
    /\ tasks[2].how = "returned"

\* C26: on a TLS connection the read deadline (now + ReadTimeout) is set
\* before the TLS handshake is performed, so a client that stalls during the
\* handshake is disconnected once ReadTimeout has elapsed.
C26_DeadlineBeforeHandshake ==
    \A c \in DOMAIN tasks : tasks[c].state = "handshake" => tasks[c].readDeadline

\* C27: every connection task closes its connection when it ends, on every
\* path: failed handshake, request parse failure, certificate error, normal
\* handler return and handler panic.
C27_ClosedOnEveryPath ==
    \A c \in DOMAIN tasks : tasks[c].state = "ended" => tasks[c].closed

\* C27 witness: two tasks have ended, one after a panic of its handler and
\* one after a failed handshake, and both connections are closed.
C27_Witness ==
    /\ Len(tasks) = 2
    /\ tasks[1].how = "panicked" /\ tasks[1].closed
    /\ tasks[2].how = "handshakeFailed" /\ tasks[2].closed

(***************************************************************************)
(* Goroutines that share a Client                                          *)
(***************************************************************************)

\* The goroutines that call the Client at once.
MaxGoroutines == 2

\* The calls on the Client that touch its maps.
ClientCalls == {"AddClientCertificate", "AddServerCertificate", "RequestURL"}

\* The map a call is in at a position, and whether it writes it: the Add*
\* calls write their map; RequestURL ranges over prefixToCertificate in
\* GetCertificate and, after the dial, reads domainToAllowedCertificateHash.
MapAccess(call, at) ==
    IF call = "AddClientCertificate" /\ at = "inMap"
    THEN <<[map |-> "prefixToCertificate", write |-> TRUE]>>
    ELSE IF call = "AddServerCertificate" /\ at = "inMap"
    THEN <<[map |-> "domainToAllowedCertificateHash", write |-> TRUE]>>
    ELSE IF call = "RequestURL" /\ at = "inGetCertificate"
    THEN <<[map |-> "prefixToCertificate", write |-> FALSE]>>
    ELSE IF call = "RequestURL" /\ at = "inMap"
    THEN <<[map |-> "domainToAllowedCertificateHash", write |-> FALSE]>>
    ELSE <<>>

\* The positions of a call, in order.
Positions(call) ==
    IF call = "RequestURL"
    THEN <<"called", "inGetCertificate", "dialling", "inMap", "returned">>
    ELSE <<"called", "inMap", "returned">>

\* The position after the position at of a call.
NextPosition(call, at) ==
    LET ps == Positions(call)
        i  == CHOOSE k \in 1..Len(ps) : ps[k] = at
    IN  ps[i + 1]

\* The goroutines g would have to wait for before its next position were
\* the maps guarded by a readers-writer lock.
waitsForLocked(gs, g) ==
    LET next == MapAccess(gs[g].call, NextPosition(gs[g].call, gs[g].at))
    IN  IF next = <<>> THEN {}
        ELSE {h \in DOMAIN gs \ {g} :
                 LET held == MapAccess(gs[h].call, gs[h].at)
                 IN  held # <<>> /\ (held[1].write \/ next[1].write)}

\* The goroutines g waits for before its next position: none, the Client
\* has no lock.
waitsFor(gs, g) == {}

\* Goroutines are about to call the Client.
InitShared ==
    /\ ServerIdle
    /\ ClientIdle
    /\ HostsIdle
    /\ LibIdle
    /\ CmdIdle
    /\ ListenIdle
    /\ ReaderIdle
    /\ PickIdle
    /\ logMu = [stdout |-> <<>>, stderr |-> <<>>]
    /\ logCalls = <<>>
    /\ goroutines \in [1..MaxGoroutines -> {[call |-> c, at |-> "called"] : c \in ClientCalls}]

\* The goroutine g goes on to the next position of its call.
Advance(g) ==
    /\ goroutines[g].at # "returned"
    /\ waitsFor(goroutines, g) = {}
    /\ goroutines' = [goroutines EXCEPT
                         ![g].at = NextPosition(goroutines[g].call, goroutines[g].at)]
    /\ UNCHANGED <<logMu, logCalls>>
    /\ UNCHANGED <<serverVars, clientVars, hostVars, libVars, cmdVars, listenVars,
                   readerVars, pickVars>>

SharedNext == \E g \in DOMAIN goroutines : Advance(g)

SpecShared == InitShared /\ [][SharedNext]_vars

\* C28: mutations of the client's allow-list and client-certificate map
\* through the Add* operations are serialized against concurrent requests:
\* no RequestURL reads either map while an Add* call is writing it.
C28_AddSerialized ==
    \A g, h \in DOMAIN goroutines :
        LET a == MapAccess(goroutines[g].call, goroutines[g].at)
            b == MapAccess(goroutines[h].call, goroutines[h].at)
        IN  (g # h /\ a # <<>> /\ b # <<>> /\ a[1].map = b[1].map)
                => (~a[1].write /\ ~b[1].write)

(***************************************************************************)
(* The Logger                                                              *)
(***************************************************************************)

\* The goroutines that log at once.
MaxLoggers == 2

Levels == {"INFO", "WARN", "ERROR"}

\* The mutex Logger.Write locks for an entry of the level.
LaneOf(level) == IF level = "ERROR" THEN "stderr" ELSE "stdout"

\* The stream a call of the level writes at a position: the entry goes to
\* the stream of its lane, the new line to standard error in both branches.
StreamWritten(level, at) ==
    IF at = "writeEntry" THEN <<LaneOf(level)>>
    ELSE IF at = "writeNewLine" THEN <<"stderr">>
    ELSE <<>>

\* Goroutines are about to call log.Info, log.Warn or log.Error.
InitLog ==
    /\ ServerIdle
    /\ ClientIdle
    /\ HostsIdle
    /\ LibIdle
    /\ CmdIdle
    /\ ListenIdle
    /\ ReaderIdle
    /\ PickIdle
    /\ goroutines = <<>>
    /\ logMu = [stdout |-> <<>>, stderr |-> <<>>]
    /\ logCalls \in [1..MaxLoggers -> {[level |-> l, at |-> "marshal"] : l \in Levels}]

\* Logger.Write of g has marshalled the entry, locks the mutex of its lane
\* and calls Write for the entry.
LogLock(g) ==
    /\ logCalls[g].at = "marshal"
    /\ logMu[LaneOf(logCalls[g].level)] = <<>>
    /\ logMu' = [logMu EXCEPT ![LaneOf(logCalls[g].level)] = <<g>>]
    /\ logCalls' = [logCalls EXCEPT ![g].at = "writeEntry"]
    /\ UNCHANGED goroutines
    /\ UNCHANGED <<serverVars, clientVars, hostVars, libVars, cmdVars, listenVars,
                   readerVars, pickVars>>

\* The Write of the entry returns and the Write of the new line is called.
LogEntryWritten(g) ==
    /\ logCalls[g].at = "writeEntry"
    /\ logCalls' = [logCalls EXCEPT ![g].at = "writeNewLine"]
    /\ UNCHANGED <<goroutines, logMu>>
    /\ UNCHANGED <<serverVars, clientVars, hostVars, libVars, cmdVars, listenVars,
                   readerVars, pickVars>>

\* The Write of the new line returns; the deferred Unlock runs.
LogReturn(g) ==
    /\ logCalls[g].at = "writeNewLine"
    /\ logMu' = [logMu EXCEPT ![LaneOf(logCalls[g].level)] = <<>>]
    /\ logCalls' = [logCalls EXCEPT ![g].at = "returned"]
    /\ UNCHANGED goroutines
    /\ UNCHANGED <<serverVars, clientVars, hostVars, libVars, cmdVars, listenVars,
                   readerVars, pickVars>>

LogNext ==
    \E g \in DOMAIN logCalls :
        \/ LogLock(g)
        \/ LogEntryWritten(g)
        \/ LogReturn(g)

SpecLog == InitLog /\ [][LogNext]_vars

\* C29: the logger guards each output lane with its own mutex: every write
\* to standard output happens while the stdout mutex is held and every
\* write to standard error while the stderr mutex is held, so two concurrent
\* log calls never write to the same stream at the same time.
C29_LaneMutexHeld ==
    /\ \A g \in DOMAIN logCalls :
          LET s == StreamWritten(logCalls[g].level, logCalls[g].at)
          IN  s # <<>> => logMu[s[1]] = <<g>>
    /\ \A g, h \in DOMAIN logCalls :
          LET s == StreamWritten(logCalls[g].level, logCalls[g].at)
              t == StreamWritten(logCalls[h].level, logCalls[h].at)
          IN  (g # h /\ s # <<>>) => s # t

(***************************************************************************)
(* NewResponse on the bytes a server sends                                 *)
(***************************************************************************)

\* The code tokens a server puts first: valid two-digit codes, tokens of
\* one and three bytes, a second byte that is no digit, first bytes outside
\* 1..6, and none at all.
CodeTokens == {CodeSuccess, CodeNotFound, <<"4">>, <<"4", "0", "0">>, <<"2", "x">>,
               <<"9">>, <<"7", "0">>, <<"0", "7">>, <<"x", "y">>, <<>>}

\* What follows the code before the CRLF: nothing, a space alone, a space and
\* a meta, a space and a meta of 1025 bytes.
MetaParts == {<<>>, <<SP>>, <<SP, "m">>, <<SP, "m", SP, "n">>, <<SP>> \o Fill(MaxMetaLength + 1)}

\* What the server sends after the header line.
Bodies == {<<>>, <<"b">>, <<"b", CR, LF, "c">>, <<LF>>, <<CR, LF>>}

\* The streams a client reads a response from: with a header line, and cut
\* before its CRLF or between its CR and LF.
ResponseStreams ==
    {c \o m \o <<CR, LF>> \o b : c \in CodeTokens, m \in MetaParts, b \in Bodies}
    \cup {c \o m : c \in CodeTokens, m \in MetaParts}
    \cup {c \o m \o <<CR>> : c \in CodeTokens, m \in MetaParts}

\* A client holds the reader of a connection on which the server has sent
\* the stream and closed.
InitParse ==
    /\ ClientIdle
    /\ HostsIdle
    /\ LibIdle
    /\ ProcIdle
    /\ insecure = FALSE
    /\ pc = "parsing"
    /\ stream \in ResponseStreams
    /\ certificate = NoCertificate
    /\ dh = "nil"
    /\ r = NilRequest
    /\ w = NewWriter
    /\ conn = <<>>
    /\ handler = "notInvoked"
    /\ calls = 0
    /\ accepted = <<>>
    /\ lastCall = NoCall

\* NewResponse(r) returns.
ParseResponse ==
    /\ pc = "parsing"
    /\ pc' = "parsed"
    /\ LET nr == NewResponse(stream, "EOF")
       IN  lastReq' = [NoRequest EXCEPT !.resp = nr.resp, !.err = nr.err]
    /\ UNCHANGED <<insecure, stream, certificate, dh, r, w, conn, handler, calls,
                   accepted, lastCall>>
    /\ UNCHANGED <<allowed, clientInsecure, clock, adds, nAdds>>
    /\ UNCHANGED <<hostVars, libVars, procVars>>

ParseNext == ParseResponse

SpecParse == InitParse /\ [][ParseNext]_vars

\* The index of the LF of the first CRLF of s, 0 when s has none.
FirstCrLf(s) ==
    IF \E i \in 2..Len(s) : s[i-1] = CR /\ s[i] = LF
    THEN CHOOSE i \in 2..Len(s) :
             /\ s[i-1] = CR /\ s[i] = LF
             /\ \A j \in 2..(i-1) : ~(s[j-1] = CR /\ s[j] = LF)
    ELSE 0

\* The status line of s without its CRLF, s having one.
StatusLine(s) == SubSeq(s, 1, FirstCrLf(s) - 2)

\* The bytes of a status line before its first space.
CodeToken(line) ==
    SubSeq(line, 1, Cardinality({i \in 1..Len(line) : \A j \in 1..i : line[j] # SP}))

Digits == {"0", "1", "2", "3", "4", "5", "6", "7", "8", "9"}

\* Two ASCII digits, the first in 1..6.
TwoDigitCode(c) ==
    Len(c) = 2 /\ c[1] \in {"1", "2", "3", "4", "5", "6"} /\ c[2] \in Digits

\* NewResponse has read a status line within the cap.
ParsedLine ==
    pc = "parsed" /\ FirstCrLf(stream) \in 2..MaxHeaderLength

\* C31: the response parser accepts a status code only if it is exactly two
\* ASCII digits with the first in 1..6 and the second in 0..9, and returns
\* ErrInvalidCode for every other code token.
C31_OnlyTwoDigitCodes ==
    ParsedLine =>
        /\ lastReq.err = "nil" => TwoDigitCode(lastReq.resp[1].Header.Code)
        /\ ~TwoDigitCode(CodeToken(StatusLine(stream))) => lastReq.err = ErrInvalidCode

\* The stream starts with a status line that is a two-digit code alone.
CodeAlone == TwoDigitCode(StatusLine(stream))

\* C32: the response parser accepts a status line made of a code alone (no
\* space and no meta) and returns that code with meta = "".
C32_CodeAloneAccepted ==
    (ParsedLine /\ CodeAlone) =>
        /\ lastReq.err = "nil"
        /\ lastReq.resp[1].Header = [Code |-> StatusLine(stream), Meta |-> <<>>]

\* C32 witness: a status line of a code alone, followed by a body, was parsed.
C32_Witness ==
    /\ ParsedLine /\ CodeAlone
    /\ FirstCrLf(stream) < Len(stream)
    /\ lastReq.resp[1].Header.Meta = <<>>

\* The body NewResponse hands to the caller.
BodyLeft == lastReq.resp[1].Body

\* C35: reading a response header never consumes stream bytes beyond the LF
\* of the first CRLF, so the body handed to the caller starts at the first
\* byte after the header line and loses no body byte.
C35_BodyStartsAfterHeader ==
    (pc = "parsed" /\ FirstCrLf(stream) > 0) =>
        LET k == FirstCrLf(stream)
        IN  /\ Len(BodyLeft) >= Len(stream) - k
            /\ BodyLeft = SubSeq(stream, Len(stream) - Len(BodyLeft) + 1, Len(stream))
            /\ ParsedLine => BodyLeft = SubSeq(stream, k + 1, Len(stream))

\* C35 witness: a header line was read and the body left holds a CRLF of
\* its own.
C35_Witness ==
    /\ ParsedLine
    /\ lastReq.err = "nil"
    /\ BodyLeft = <<"b", CR, LF, "c">>

(***************************************************************************)
(* The peer chain and the allow-set                                        *)
(***************************************************************************)

\* C36: if any certificate presented by the server has an allow-listed
\* fingerprint, RequestURL reports trusted = true, whatever the position of
\* that certificate in the peer chain; it fails with a validity-window error
\* only when no presented certificate matches the allow-set.
C36_TrustedAtAnyPosition ==
    LET listed == \E i \in 1..Len(lastReq.chain) :
                      Fingerprint(lastReq.chain[i].Raw) \in lastReq.allowedHashesForDomain
    IN  /\ (lastReq.connected /\ listed) => lastReq.ok
        /\ lastReq.err \in {ErrExpiredCertificate, ErrCertificateNotYetValid} => ~listed

(***************************************************************************)
(* ListenAndServe with and without TLS                                     *)
(***************************************************************************)

\* A server is about to be made; the caller sets Insecure or leaves it.
InitServe ==
    /\ ClientIdle
    /\ HostsIdle
    /\ ProcIdle
    /\ LibIdle
    /\ insecure \in BOOLEAN
    /\ pc = "NewServer"
    /\ stream = <<>>
    /\ certificate = NoCertificate
    /\ dh = "nil"
    /\ r = NilRequest
    /\ w = NewWriter
    /\ conn = <<>>
    /\ handler = "notInvoked"
    /\ calls = 0
    /\ accepted = <<>>
    /\ lastCall = NoCall

\* ListenAndServe calls serveInsecure: it returns an error when the map has
\* more than one entry, else takes the handler of the range's first entry
\* and enters the accept loop.
serveInsecure ==
    /\ pc = "listening"
    /\ insecure
    /\ IF Cardinality(DOMAIN DomainToHandler) > 1
       THEN pc' = "refused" /\ dh' = dh
       ELSE /\ pc' = "serving"
            /\ \E k \in DOMAIN DomainToHandler : dh' = DomainToHandler[k]
    /\ UNCHANGED hostVars
    /\ UNCHANGED <<insecure, stream, certificate, r, w, conn, handler, calls,
                   accepted, lastCall>>
    /\ UNCHANGED <<clientVars, libVars, procVars>>

\* The loop of serveInsecure accepts a connection and hands it to srv.handle
\* with the handler.
AcceptInsecure ==
    /\ pc = "serving"
    /\ insecure
    /\ pc' = "handle"
    /\ UNCHANGED hostVars
    /\ UNCHANGED <<insecure, stream, certificate, dh, r, w, conn, handler, calls,
                   accepted, lastCall>>
    /\ UNCHANGED <<clientVars, libVars, procVars>>

ServeNext ==
    \/ NewServer
    \/ ~insecure /\ GetCertificate
    \/ ~insecure /\ GetCertificateNotFound
    \/ ~insecure /\ HandleTLSLookup
    \/ serveInsecure
    \/ AcceptInsecure

SpecServe == InitServe /\ [][ServeNext]_vars

\* C37: with Insecure set, the server serves plain-TCP connections with the
\* registered domain's handler for every domain map that registers exactly
\* one domain through NewServer, and refuses to serve with an error when
\* more than one domain was registered.
C37_InsecureServesOneDomain ==
    (insecure /\ pc \in {"refused", "serving", "handle"}) =>
        /\ Cardinality(DOMAIN registered) = 1 =>
              /\ pc # "refused"
              /\ \A k \in DOMAIN registered : dh = registered[k]
        /\ Cardinality(DOMAIN registered) > 1 => pc = "refused"

(***************************************************************************)
(* Routes without a wildcard                                               *)
(***************************************************************************)

\* The route has a wildcard segment.
HasWildcard(route) == \E p \in 1..Len(route.Segments) : route.Segments[p].IsWildcard

\* C38: a route whose segments are all literals or variables (no wildcard)
\* matches only paths with the same number of segments as the pattern: a
\* path with additional leading segments, such as /x/route/b for pattern
\* /route/b, does not match.
C38_SameNumberOfSegments ==
    (RouteServed /\ ~HasWildcard(ServedRoute)) =>
        Len(ServedSegments) = Len(ServedRoute.Segments)

(***************************************************************************)
(* The client certificate of a request                                     *)
(***************************************************************************)

\* C39: when gemini request is run with --certFile and --keyFile, the
\* loaded key pair is attached as the client certificate of the TLS
\* connection for the requested gemini:// URL.
C39_KeyPairAttached ==
    (pc = "exited" /\ cmd.certFile /\ cmd.keyPairLoaded /\ ~cmd.noTLS) =>
        /\ Len(picked) = 1
        /\ picked[1].cert = <<LoadedKeyPair>>

\* The prefixes client certificates are registered for.
CertPrefixes == {<<SLASH>>, Scheme \o <<"h", SLASH>>, Scheme \o <<"h", SLASH, "a">>,
                 Scheme \o <<"g", SLASH>>}

\* The key pairs registered.
KeyPairs == {"keyPair1", "keyPair2"}

\* The URLs requested.
PickURLs == {[Host |-> <<"h">>, Path |-> <<SLASH>>],
             [Host |-> <<"h">>, Path |-> <<SLASH, "a", SLASH, "b">>],
             [Host |-> <<"g">>, Path |-> <<SLASH>>]}

\* The most client certificates registered and GetCertificate calls made.
MaxPrefixes == 2
MaxPicks == 2

\* NewClient
InitPick ==
    /\ ServerIdle
    /\ ClientIdle
    /\ HostsIdle
    /\ LibIdle
    /\ CmdIdle
    /\ ListenIdle
    /\ SharedIdle
    /\ ReaderIdle
    /\ prefixToCertificate = <<>>
    /\ picked = <<>>

\* client.AddClientCertificate(prefix, cert)
AddClientCertificateCall ==
    /\ Cardinality(DOMAIN prefixToCertificate) < MaxPrefixes
    /\ \E prefix \in CertPrefixes, cert \in KeyPairs :
          prefixToCertificate' = AddClientCertificate(prefixToCertificate, prefix, cert)
    /\ UNCHANGED picked
    /\ UNCHANGED <<serverVars, clientVars, hostVars, libVars, cmdVars, listenVars,
                   sharedVars, readerVars>>

\* client.GetCertificate(u), called by RequestURL
GetCertificateCall ==
    /\ Len(picked) < MaxPicks
    /\ \E u \in PickURLs :
          \E c \in ClientGetCertificate(prefixToCertificate, u) :
              picked' = Append(picked, [u |-> u, m |-> prefixToCertificate, cert |-> c])
    /\ UNCHANGED prefixToCertificate
    /\ UNCHANGED <<serverVars, clientVars, hostVars, libVars, cmdVars, listenVars,
                   sharedVars, readerVars>>

PickNext ==
    \/ AddClientCertificateCall
    \/ GetCertificateCall

SpecPick == InitPick /\ [][PickNext]_vars

\* C40: client certificate selection is deterministic: for a fixed set of
\* registered prefixes and a fixed URL, GetCertificate always returns the
\* same key pair, also when several registered prefixes are string-prefixes
\* of the URL.
C40_SelectionDeterministic ==
    \A i, j \in 1..Len(picked) :
        (picked[i].u = picked[j].u /\ picked[i].m = picked[j].m)
            => picked[i].cert = picked[j].cert

(***************************************************************************)
(* The loop of readUntilCrLf, one Read at a time                           *)
(***************************************************************************)

\* The longest stream and the largest maxLength.
MaxStream == 4
MaxReadLength == 4

\* The bytes of the streams read.
ReaderAlphabet == {"a", CR, LF}

\* readUntilCrLf(src, maxLength) is called with maxLength >= 2 on a reader
\* that delivers the bytes of src one for each Read and then fails with
\* readErr; withData says that it returns the error together with its last
\* byte (n = 1 and err # nil), as an io.Reader may and as a tls.Conn does
\* when the close_notify alert has arrived with the data.
InitReader ==
    /\ ServerIdle
    /\ ClientIdle
    /\ HostsIdle
    /\ LibIdle
    /\ CmdIdle
    /\ ListenIdle
    /\ SharedIdle
    /\ PickIdle
    /\ \E src \in SeqsUpTo(ReaderAlphabet, MaxStream), e \in ReadErrors,
          d \in BOOLEAN, n \in 2..MaxReadLength :
          reading = [NoRead EXCEPT !.src = src, !.readErr = e, !.withData = d,
                                   !.maxLength = n, !.at = "loop"]

\* The next Read returns the error with the last byte of the stream.
ErrorWithData(rs) == rs.withData /\ rs.pos + 1 = Len(rs.src)

\* One iteration of the loop in which src.Read returns a byte and no error:
\* the LF after a CR ends the call with ok, any other byte is appended.
ReadReturnsByte ==
    /\ reading.at = "loop"
    /\ reading.i < reading.maxLength
    /\ reading.pos < Len(reading.src)
    /\ ~ErrorWithData(reading)
    /\ LET current == reading.src[reading.pos + 1]
       IN  IF current = LF /\ reading.previousIsCr
           THEN reading' = [reading EXCEPT !.pos = @ + 1, !.ok = TRUE, !.at = "returned"]
           ELSE reading' = [reading EXCEPT !.pos = @ + 1, !.i = @ + 1,
                                           !.previousIsCr = (current = CR),
                                           !.output = Append(@, current)]
    /\ UNCHANGED <<serverVars, clientVars, hostVars, libVars, cmdVars, listenVars,
                   sharedVars, pickVars>>

\* One iteration in which src.Read returns an error: the call returns it,
\* and the byte that came with it, if any, stays in the buffer.
ReadReturnsError ==
    /\ reading.at = "loop"
    /\ reading.i < reading.maxLength
    /\ reading.pos = Len(reading.src) \/ ErrorWithData(reading)
    /\ reading' = [reading EXCEPT !.pos = Len(reading.src), !.err = reading.readErr,
                                  !.at = "returned"]
    /\ UNCHANGED <<serverVars, clientVars, hostVars, libVars, cmdVars, listenVars,
                   sharedVars, pickVars>>

\* The loop ends after maxLength iterations: ok is false and err is nil.
LoopEnds ==
    /\ reading.at = "loop"
    /\ reading.i = reading.maxLength
    /\ reading' = [reading EXCEPT !.at = "returned"]
    /\ UNCHANGED <<serverVars, clientVars, hostVars, libVars, cmdVars, listenVars,
                   sharedVars, pickVars>>

ReaderNext ==
    \/ ReadReturnsByte
    \/ ReadReturnsError
    \/ LoopEnds

SpecReader == InitReader /\ [][ReaderNext]_vars

\* The bytes the call has taken from the stream.
BytesRead == SubSeq(reading.src, 1, reading.pos)

\* C33: when readLineCRLF succeeds (ok = true) it returns exactly the bytes
\* that precede the CRLF terminator: neither the CR nor the LF of the
\* terminator is part of the returned bytes.
C33_LineWithoutTerminator ==
    (reading.at = "returned" /\ reading.ok) =>
        reading.output = SubSeq(reading.src, 1, reading.pos - 2)

\* C34: readLineCRLF terminates on every byte stream and every maxBytes >= 2
\* after consuming at most maxBytes bytes, with exactly one of three
\* outcomes: ok = true, ok = false at the cap, or the stream's I/O error
\* returned together with the bytes read so far.
C34_ThreeOutcomes ==
    /\ reading.i <= reading.maxLength
    /\ reading.pos <= reading.maxLength
    /\ reading.at = "returned" =>
          \/ reading.ok /\ reading.err = "nil"
          \/ ~reading.ok /\ reading.err = "nil" /\ reading.pos = reading.maxLength
          \/ /\ ~reading.ok
             /\ reading.err = reading.readErr
             /\ reading.output = BytesRead

====
